---- MODULE Spec2Model ----
(***************************************************************************)
(* Intel DSA user-space driver (dsa-rust): the descriptor / completion     *)
(* protocol, the hardware work queue (linux_impl::WorkQueue) and the       *)
(* software fallback (windows_impl::WorkQueue).                            *)
(*                                                                         *)
(* Number representation.  TLC integers are 32-bit signed, so              *)
(*   - a u32 is a pair   <<lo16, hi16>>          of 16-bit limbs,          *)
(*   - a u64 is a tuple  <<l0, l1, l2, l3>>      of 16-bit limbs,          *)
(*     least significant limb first;                                       *)
(*   - a usize buffer length is a natural number, and the u32 width of     *)
(*     the transfer-size field is XferWrap (the model's 2^32).             *)
(***************************************************************************)
EXTENDS Integers, Sequences, FiniteSets, TLC

VARIABLES
    wq,          \* the linux_impl::WorkQueue handle: wq_type, max_retries, spin_iterations
    req,         \* req[t]: the operation thread t is calling and its arguments
    chain,       \* chain[t]: the caller's progress through a chained checksum
    pc,          \* pc[t]: where thread t is in its call
    mem,         \* mem[t]: the caller's buffers on the hardware path, [a, b]
    completion,  \* completion[t]: the completion record in thread t's stack frame
    desc,        \* desc[t]: the descriptor built by the call
    attempts,    \* attempts[t]: submission instructions issued by the call
    polls,       \* polls[t]: status polls made by the call
    ret,         \* ret[t]: the value the hardware-path call returned
    fb,          \* fb[t]: [ret, dst] of the same call on the software fallback
    devq,        \* the device's work queue: accepted descriptors, oldest first
    served,      \* served[t]: the device completed this call's descriptor with Success
    tally,       \* tally[t]: what the call has done at the device so far: descriptors
                 \* accepted, status reads made, the status byte the last read saw
    sysfs,       \* the host's /sys/bus/dsa/devices and /dev/dsa, as discovery reads them
    engine,      \* what DsaEngine::open_first returned
    portal,      \* the process's mapping of the work queue portal: the handle's
                 \* state and the mmap / munmap calls made so far
    parsed,      \* the CompletionStatus last parsed from a status byte
    lastset      \* of the descriptor a caller edits through set_opcode / set_flags /
                 \* add_flags: the opcode it last set and the flag bits it last set
                 \* or has added since

\* the state outside the calls on an open handle
host == <<sysfs, engine, portal, parsed, lastset>>

vars == <<wq, req, chain, pc, mem, completion, desc, attempts, polls, ret, fb, devq, served,
          tally, sysfs, engine, portal, parsed, lastset>>

(***************************************************************************)
(* Bounds of the model.                                                    *)
(***************************************************************************)
\* The number of values of the descriptor's transfer-size field: `len as u32`
\* keeps len modulo this.  It stands for 2^32 and is small so that buffers
\* reaching and exceeding it can be enumerated.
XferWrap == 12
\* Depth of the device's work queue (WorkQueueInfo::size).
WqSize == 1
\* Polls (submission attempts) of one call that are followed one by one; the
\* remaining ones of a larger budget are taken in a single step in which the
\* device does nothing.
MaxPolls == 2
MaxTries == 2
\* Threads that may call operations on the handle.
NThreads == 2

(***************************************************************************)
(* Program constants.                                                      *)
(***************************************************************************)
DEFAULT_MAX_RETRIES == 1000
DEFAULT_SPIN_ITERATIONS == 1000000
\* DsaOpcode
Noop == 0
MemMove == 4
MemFill == 5
Compare == 6
CrcGen == 16
\* DescriptorFlags
REQUEST_COMPLETION == 1
\* Completion status bytes
ST_PENDING == 0
ST_SUCCESS == 1
ST_PAGE_FAULT == 3
ST_INVALID_FLAGS == 16
ST_UNSUPPORTED_OP == 17
ST_INVALID_SIZE == 19
ST_INVALID_COMPLETION_ADDR == 25
ST_HARDWARE_ERROR == 31
\* masks and shifts of descriptor.rs
OPCODE_SHIFT == 16777216
LIMB == 256 * 256

(***************************************************************************)
(* Fixed-width arithmetic.                                                 *)
(***************************************************************************)
RECURSIVE BitXor(_, _)
BitXor(a, b) ==
    IF a = 0 THEN b
    ELSE IF b = 0 THEN a
    ELSE ((a + b) % 2) + 2 * BitXor(a \div 2, b \div 2)

RECURSIVE BitOr(_, _)
BitOr(a, b) ==
    IF a = 0 THEN b
    ELSE IF b = 0 THEN a
    ELSE (IF a % 2 = 1 \/ b % 2 = 1 THEN 1 ELSE 0) + 2 * BitOr(a \div 2, b \div 2)

ZeroU32 == <<0, 0>>
ZeroU64 == <<0, 0, 0, 0>>

\* `x as u64` for x: u32 (zero extension)
u32_as_u64(x) == <<x[1], x[2], 0, 0>>
\* `x as u32` for x: u64 (truncation to the low 32 bits)
u64_as_u32(x) == <<x[1], x[2]>>
\* `len as u32` for len: usize
usize_as_u32(len) == len % XferWrap

\* u64::to_le_bytes
to_le_bytes(p) ==
    << p[1] % 256, p[1] \div 256, p[2] % 256, p[2] \div 256,
       p[3] % 256, p[3] \div 256, p[4] % 256, p[4] \div 256 >>

Not32(x) == <<(LIMB - 1) - x[1], (LIMB - 1) - x[2]>>
Xor32(x, y) == <<BitXor(x[1], y[1]), BitXor(x[2], y[2])>>
Shr1(x) == <<(x[1] \div 2) + (x[2] % 2) * (LIMB \div 2), x[2] \div 2>>

(***************************************************************************)
(* CRC-32 (IEEE 802.3, reflected polynomial 0xEDB88320) as crc32fast       *)
(* computes it: Hasher::new_with_initial(init) starts from state = init,   *)
(* update(buf) sets state = !fold(!state, buf), finalize returns state.    *)
(***************************************************************************)
CRC32_POLY == <<33568, 60856>>

CrcBit(c) == IF c[1] % 2 = 1 THEN Xor32(Shr1(c), CRC32_POLY) ELSE Shr1(c)

CrcByte(c, b) ==
    LET c0 == <<BitXor(c[1], b), c[2]>>
    IN  CrcBit(CrcBit(CrcBit(CrcBit(CrcBit(CrcBit(CrcBit(CrcBit(c0))))))))

\* The fold over the bytes of buf, starting at index i.  (The test on c1 makes
\* TLC evaluate each step before the next.)
RECURSIVE CrcFold(_, _, _)
CrcFold(c, buf, i) ==
    IF i > Len(buf) THEN c
    ELSE LET c1 == CrcByte(c, buf[i])
         IN  IF c1[1] >= 0 THEN CrcFold(c1, buf, i + 1) ELSE c1

hasher_update(state, buf) == Not32(CrcFold(Not32(state), buf, 1))

crc32fast(init, buf) == hasher_update(init, buf)

(***************************************************************************)
(* descriptor.rs: DsaHwDesc                                                *)
(***************************************************************************)
DsaHwDesc_new ==
    [ pasid |-> 0, flags_opcode |-> 0, completion_addr |-> ZeroU64,
      src_addr |-> ZeroU64, dst_addr |-> ZeroU64, xfer_size |-> 0,
      int_handle |-> 0, reserved1 |-> 0, src2_addr |-> ZeroU64,
      crc_seed_or_delta_size |-> ZeroU64, reserved2 |-> ZeroU64 ]

set_opcode(d, op) ==
    [d EXCEPT !.flags_opcode = (@ % OPCODE_SHIFT) + op * OPCODE_SHIFT]

opcode(d) == (d.flags_opcode \div OPCODE_SHIFT) % 256

set_flags(d, flags) ==
    [d EXCEPT !.flags_opcode = (@ - (@ % OPCODE_SHIFT)) + (flags % OPCODE_SHIFT)]

\* add_flags without its mask: bits 24-31 of the argument reach the opcode
add_flags_unmasked(d, flags) ==
    [d EXCEPT !.flags_opcode = BitOr(@, flags)]

add_flags(d, flags) ==
    [d EXCEPT !.flags_opcode = BitOr(@, flags % OPCODE_SHIFT)]

\* set_completion storing the address without asking for a completion
set_completion_quiet(d, record) ==
    [d EXCEPT !.completion_addr = record]

\* record is the address of the cr record (`record as *mut _ as u64`)
set_completion(d, record) ==
    add_flags([d EXCEPT !.completion_addr = record], REQUEST_COMPLETION)

crc_gen(src, len, seed, cr) ==
    set_completion(
        [set_opcode(DsaHwDesc_new, CrcGen) EXCEPT
            !.src_addr = src,
            !.xfer_size = usize_as_u32(len),
            !.crc_seed_or_delta_size = u32_as_u64(seed)],
        cr)

mem_move(dst, src, len, cr) ==
    set_completion(
        [set_opcode(DsaHwDesc_new, MemMove) EXCEPT
            !.src_addr = src,
            !.dst_addr = dst,
            !.xfer_size = usize_as_u32(len)],
        cr)

\* mem_fill with its two operands in each other's field
mem_fill_swapped(dst, len, pattern, cr) ==
    set_completion(
        [set_opcode(DsaHwDesc_new, MemFill) EXCEPT
            !.src_addr = dst,
            !.dst_addr = pattern,
            !.xfer_size = usize_as_u32(len)],
        cr)

mem_fill(dst, len, pattern, cr) ==
    set_completion(
        [set_opcode(DsaHwDesc_new, MemFill) EXCEPT
            !.src_addr = pattern,
            !.dst_addr = dst,
            !.xfer_size = usize_as_u32(len)],
        cr)

compare(src1, src2, len, cr) ==
    set_completion(
        [set_opcode(DsaHwDesc_new, Compare) EXCEPT
            !.src_addr = src1,
            !.dst_addr = src2,
            !.xfer_size = usize_as_u32(len)],
        cr)

desc_noop(cr) ==
    set_completion(set_opcode(DsaHwDesc_new, Noop), cr)

(***************************************************************************)
(* descriptor.rs: DsaCompletionRecord, CompletionStatus                    *)
(***************************************************************************)
DsaCompletionRecord_new ==
    [ status |-> 0, result |-> 0, fault_info |-> 0, reserved1 |-> 0,
      bytes_completed |-> 0, fault_addr |-> ZeroU64,
      result_value |-> ZeroU64, result_value2 |-> ZeroU64 ]

is_complete(record) == record.status # 0

\* From<u8> dropping the byte of a code it does not know
CompletionStatus_from_lossy(status) ==
    CASE status = ST_PENDING -> [tag |-> "Pending", code |-> 0]
      [] status = ST_SUCCESS -> [tag |-> "Success", code |-> 0]
      [] status = ST_PAGE_FAULT -> [tag |-> "PageFault", code |-> 0]
      [] status = ST_INVALID_FLAGS -> [tag |-> "InvalidFlags", code |-> 0]
      [] status = ST_UNSUPPORTED_OP -> [tag |-> "UnsupportedOp", code |-> 0]
      [] status = ST_INVALID_SIZE -> [tag |-> "InvalidSize", code |-> 0]
      [] status = ST_INVALID_COMPLETION_ADDR -> [tag |-> "InvalidCompletionAddr", code |-> 0]
      [] status = ST_HARDWARE_ERROR -> [tag |-> "HardwareError", code |-> 0]
      [] OTHER -> [tag |-> "Unknown", code |-> 0]

CompletionStatus_from(status) ==
    CASE status = ST_PENDING -> [tag |-> "Pending", code |-> 0]
      [] status = ST_SUCCESS -> [tag |-> "Success", code |-> 0]
      [] status = ST_PAGE_FAULT -> [tag |-> "PageFault", code |-> 0]
      [] status = ST_INVALID_FLAGS -> [tag |-> "InvalidFlags", code |-> 0]
      [] status = ST_UNSUPPORTED_OP -> [tag |-> "UnsupportedOp", code |-> 0]
      [] status = ST_INVALID_SIZE -> [tag |-> "InvalidSize", code |-> 0]
      [] status = ST_INVALID_COMPLETION_ADDR -> [tag |-> "InvalidCompletionAddr", code |-> 0]
      [] status = ST_HARDWARE_ERROR -> [tag |-> "HardwareError", code |-> 0]
      [] OTHER -> [tag |-> "Unknown", code |-> status]

get_status(record) == CompletionStatus_from(record.status)

\* CompletionStatus::is_success / is_pending / is_error
is_success(st) == st.tag = "Success"
is_pending(st) == st.tag = "Pending"
is_error(st) == ~(st.tag \in {"Pending", "Success"})

crc32_result(record) == u64_as_u32(record.result_value)

compare_result(record) == record.result = 0

(***************************************************************************)
(* error.rs: the values an operation returns.  One record shape for all:   *)
(* kind is "Ok" or the DsaError variant; crc is the Ok value of crc32, eq  *)
(* the Ok value of memcmp; the other fields are the variant's fields.      *)
(***************************************************************************)
NoRet ==
    [ kind |-> "none", crc |-> ZeroU32, eq |-> FALSE, expected |-> 0, actual |-> 0,
      status |-> 0, result |-> 0, fault_addr |-> ZeroU64, bytes_completed |-> 0 ]

Ok == [NoRet EXCEPT !.kind = "Ok"]
OkCrc(c) == [NoRet EXCEPT !.kind = "Ok", !.crc = c]
OkBool(b) == [NoRet EXCEPT !.kind = "Ok", !.eq = b]
BufferSizeMismatch(e, a) ==
    [NoRet EXCEPT !.kind = "BufferSizeMismatch", !.expected = e, !.actual = a]
QueueFull == [NoRet EXCEPT !.kind = "QueueFull"]
PageFault(fa, bc) ==
    [NoRet EXCEPT !.kind = "PageFault", !.fault_addr = fa, !.bytes_completed = bc]
OperationFailed(st, res) ==
    [NoRet EXCEPT !.kind = "OperationFailed", !.status = st, !.result = res]

(***************************************************************************)
(* wq.rs: windows_impl::WorkQueue, the software fallback.  Each operation  *)
(* is a function of its arguments: [ret |-> the value returned,            *)
(* dst |-> the destination buffer afterwards].                             *)
(***************************************************************************)
win_crc32(data, seed) ==
    IF data = <<>> THEN OkCrc(seed) ELSE OkCrc(crc32fast(seed, data))

win_memcpy(dst, src) ==
    IF Len(dst) < Len(src)
    THEN [ret |-> BufferSizeMismatch(Len(src), Len(dst)), dst |-> dst]
    ELSE IF src = <<>>
    THEN [ret |-> Ok, dst |-> dst]
    ELSE [ret |-> Ok,
          dst |-> [i \in 1..Len(dst) |-> IF i <= Len(src) THEN src[i] ELSE dst[i]]]

win_memset(dst, pattern) ==
    IF dst = <<>>
    THEN [ret |-> Ok, dst |-> dst]
    ELSE LET pattern_bytes == to_le_bytes(pattern)
             remainder == Len(dst) % 8
             start == Len(dst) - remainder
         IN  [ret |-> Ok,
              dst |-> [i \in 1..Len(dst) |->
                         IF i <= start
                         THEN pattern_bytes[((i - 1) % 8) + 1]
                         ELSE pattern_bytes[i - start]]]

\* memcmp on the fallback reporting unequal lengths as a failed operation
win_memcmp_failed(a, b) ==
    IF Len(a) # Len(b)
    THEN OperationFailed(0, 0)
    ELSE OkBool(a = b)

win_memcmp(a, b) ==
    IF Len(a) # Len(b)
    THEN BufferSizeMismatch(Len(a), Len(b))
    ELSE OkBool(a = b)

win_noop == Ok

(***************************************************************************)
(* Memory layout of the model: thread t's buffers a and b and the          *)
(* completion record of its stack frame live at distinct addresses.        *)
(***************************************************************************)
Threads == 1..NThreads

AddrA(t) == <<t * 1024 + 256, 0, 0, 0>>
AddrB(t) == <<t * 1024 + 512, 0, 0, 0>>
AddrCompletion(t) == <<t * 1024 + 768, 0, 0, 0>>
AddrOwner(addr) == addr[1] \div 1024
AddrRegion(addr) == (addr[1] % 1024) \div 256
AddrPlus(addr, k) == <<addr[1] + k, addr[2], addr[3], addr[4]>>

\* the buffer of m at addr, and m with that buffer replaced
Load(m, addr) == IF AddrRegion(addr) = 1 THEN m.a ELSE m.b
Store(m, addr, buf) ==
    IF AddrRegion(addr) = 1 THEN [m EXCEPT !.a = buf] ELSE [m EXCEPT !.b = buf]

(***************************************************************************)
(* The device.  It executes the descriptor at the head of its queue on the *)
(* first xfer_size bytes of the addressed buffers and writes the           *)
(* completion record.  DevOutcomes(d, m) is the set of [cr, m] it may      *)
(* leave: success, a page fault after k bytes, or an error status.         *)
(***************************************************************************)
ErrStatuses == {ST_HARDWARE_ERROR, 66}

DevSuccess(d, m) ==
    LET n == d.xfer_size
        op == opcode(d)
        done == [DsaCompletionRecord_new EXCEPT !.status = ST_SUCCESS,
                                                !.bytes_completed = n]
        src == Load(m, d.src_addr)
        dst == Load(m, d.dst_addr)
    IN  CASE op = Noop -> [cr |-> [done EXCEPT !.bytes_completed = 0], m |-> m]
          [] op = CrcGen ->
               [cr |-> [done EXCEPT !.result_value =
                          u32_as_u64(crc32fast(u64_as_u32(d.crc_seed_or_delta_size),
                                               SubSeq(src, 1, n)))],
                m |-> m]
          [] op = MemMove ->
               [cr |-> done,
                m |-> Store(m, d.dst_addr,
                        [i \in 1..Len(dst) |-> IF i <= n THEN src[i] ELSE dst[i]])]
          [] op = MemFill ->
               [cr |-> done,
                m |-> Store(m, d.dst_addr,
                        [i \in 1..Len(dst) |->
                           IF i <= n THEN to_le_bytes(d.src_addr)[((i - 1) % 8) + 1]
                           ELSE dst[i]])]
          [] op = Compare ->
               [cr |-> [done EXCEPT !.result =
                          IF SubSeq(src, 1, n) = SubSeq(dst, 1, n) THEN 0 ELSE 1],
                m |-> m]

\* the effect of the first k bytes of a transfer that then faults
DevPartial(d, m, k) ==
    LET op == opcode(d)
        part == DevSuccess([d EXCEPT !.xfer_size = k], m)
        addr == IF op \in {MemMove, MemFill} THEN d.dst_addr ELSE d.src_addr
    IN  [cr |-> [DsaCompletionRecord_new EXCEPT
                    !.status = ST_PAGE_FAULT,
                    !.bytes_completed = k,
                    !.fault_addr = AddrPlus(addr, k)],
         m |-> IF op \in {MemMove, MemFill} THEN part.m ELSE m]

\* an error completion: the status and a detail code in the result byte
DevError(m, st) ==
    [cr |-> [DsaCompletionRecord_new EXCEPT !.status = st, !.result = st % 8], m |-> m]

DevOutcomes(d, m) ==
    IF opcode(d) = Noop
    THEN {DevSuccess(d, m)} \cup {DevError(m, st) : st \in ErrStatuses}
    ELSE IF d.xfer_size = 0
    THEN {DevError(m, ST_INVALID_SIZE)}
    ELSE {DevSuccess(d, m)}
         \cup {DevPartial(d, m, k) : k \in {0, d.xfer_size - 1}}
         \cup {DevError(m, st) : st \in ErrStatuses}

\* What the device writes for a descriptor whose call has returned: the
\* buffers it was built for are gone, the values it computes are arbitrary.
OrphanRecords ==
    { [DsaCompletionRecord_new EXCEPT !.status = ST_SUCCESS],
      [DsaCompletionRecord_new EXCEPT !.status = ST_SUCCESS, !.result = 1,
                                      !.result_value = <<48879, 57005, 0, 0>>] }

(***************************************************************************)
(* The calls the model makes.                                              *)
(***************************************************************************)
Ramp(n, base) == [i \in 1..n |-> (base + i) % 256]
Fill(n, x) == [i \in 1..n |-> x]
Poke(buf, k, x) == [i \in 1..Len(buf) |-> IF i = k THEN x ELSE buf[i]]

Lens == {0, 1, 2, 9, XferWrap, XferWrap + 1}
Seeds == {ZeroU32, <<65535, 65535>>, <<48879, 57005>>}
Patterns == {<<47806, 51966, 48879, 57005>>, <<513, 0, 1027, 2054>>}

Request(op, a, b, seed, pattern) ==
    [op |-> op, a |-> a, b |-> b, seed |-> seed, fbseed |-> seed, pattern |-> pattern]

NoRequest == Request("none", <<>>, <<>>, ZeroU32, ZeroU64)

CrcRequests ==
    {Request("crc32", Ramp(n, 48), <<>>, s, ZeroU64) : n \in Lens, s \in Seeds}
MemcpyRequests ==
    {Request("memcpy", Ramp(n, 0), Fill(m, 238), ZeroU32, ZeroU64) : n \in Lens, m \in Lens}
MemsetRequests ==
    {Request("memset", <<>>, Fill(m, 238), ZeroU32, p) : m \in Lens, p \in Patterns}
MemcmpRequests ==
    {Request("memcmp", Ramp(n, 0), Ramp(m, 0), ZeroU32, ZeroU64) : n \in Lens, m \in Lens}
    \cup {Request("memcmp", Ramp(n, 0), Poke(Ramp(n, 0), k, 255), ZeroU32, ZeroU64) :
            n \in Lens \ {0}, k \in {1, 2, XferWrap + 1}}
NoopRequests == {Request("noop", <<>>, <<>>, ZeroU32, ZeroU64)}

Requests ==
    CrcRequests \cup MemcpyRequests \cup MemsetRequests \cup MemcmpRequests
    \cup NoopRequests

\* chained checksums: the buffer and where it is split
ChainSplits ==
    UNION {{<<Ramp(n, 48), k>> : k \in {j \in {0, 1, 2, n} : j <= n}} :
             n \in {0, 2, XferWrap + 1}}

\* stage 1..3: the three calls of a chained checksum; stage 4: a call repeated
\* with the same arguments.  hw and fb are the values an earlier call returned
\* on the hardware path and on the fallback.
NoChain == [stage |-> 0, data |-> <<>>, k |-> 0, hw |-> NoRet, fb |-> NoRet, hwok |-> FALSE]

(***************************************************************************)
(* State after WorkQueue::open.                                            *)
(***************************************************************************)
NoTally == [accepted |-> 0, reads |-> 0, seen |-> ST_PENDING]

\* sysfs.state: "missing" (no /sys/bus/dsa/devices), "unreadable" (read_dir
\* fails) or "ok"; sysfs.devices: the dsaN entries in the order read_dir yields
\* them, each the sequence of its work queues sorted by name; a work queue is
\* [enabled |-> its state file reads "enabled", node |-> /dev/dsa/<name> exists].
NoSysfs == [state |-> "missing", devices |-> <<>>]
\* engine.kind: "none" before open_first is called, then "Ok" or the DsaError
\* variant; dev and wq say which work queue WorkQueue::open was called on.
NoEngine == [kind |-> "none", dev |-> 0, wq |-> 0]
\* no handle, nothing mapped yet
NoPortal == [state |-> "none", mmaps |-> 0, munmaps |-> 0]
\* the portal of a handle WorkQueue::open has returned
OpenPortal == [state |-> "mapped", mmaps |-> 1, munmaps |-> 0]
NoStatus == [tag |-> "none", code |-> 0]
\* nothing set yet on a descriptor from DsaHwDesc::new
NoneSet == [opcode |-> 0, flags |-> {}]

\* the calls' part of the state, as WorkQueue::open leaves it
InitCalls ==
    /\ wq = [wq_type |-> "Shared", max_retries |-> DEFAULT_MAX_RETRIES,
             spin_iterations |-> DEFAULT_SPIN_ITERATIONS]
    /\ req = [t \in Threads |-> NoRequest]
    /\ chain = [t \in Threads |-> NoChain]
    /\ pc = [t \in Threads |-> "idle"]
    /\ mem = [t \in Threads |-> [a |-> <<>>, b |-> <<>>]]
    /\ completion = [t \in Threads |-> DsaCompletionRecord_new]
    /\ desc = [t \in Threads |-> DsaHwDesc_new]
    /\ attempts = [t \in Threads |-> 0]
    /\ polls = [t \in Threads |-> 0]
    /\ ret = [t \in Threads |-> NoRet]
    /\ fb = [t \in Threads |-> [ret |-> NoRet, dst |-> <<>>]]
    /\ devq = <<>>
    /\ served = [t \in Threads |-> FALSE]
    /\ tally = [t \in Threads |-> NoTally]

Init ==
    /\ InitCalls
    /\ sysfs = NoSysfs
    /\ engine = NoEngine
    /\ portal = OpenPortal
    /\ parsed = NoStatus
    /\ lastset = NoneSet

(***************************************************************************)
(* The caller.  Begin(t, r) starts the call r on both work queues.         *)
(* Frame(t, r, at) gives thread t the arguments of r and fresh locals.     *)
(***************************************************************************)
Frame(t, r, at) ==
    /\ req' = [req EXCEPT ![t] = r]
    /\ pc' = [pc EXCEPT ![t] = at]
    /\ mem' = [mem EXCEPT ![t] = [a |-> r.a, b |-> r.b]]
    /\ attempts' = [attempts EXCEPT ![t] = 0]
    /\ polls' = [polls EXCEPT ![t] = 0]
    /\ ret' = [ret EXCEPT ![t] = NoRet]
    /\ fb' = [fb EXCEPT ![t] = [ret |-> NoRet, dst |-> r.b]]
    /\ served' = [served EXCEPT ![t] = FALSE]
    /\ tally' = [tally EXCEPT ![t] = NoTally]
    /\ completion' = [completion EXCEPT ![t] = DsaCompletionRecord_new]
    /\ desc' = [desc EXCEPT ![t] = DsaHwDesc_new]
    /\ UNCHANGED <<host, wq, devq>>

\* a call borrows the handle: there is one, and its portal is mapped
Begin(t, r) ==
    /\ portal.state = "mapped"
    /\ Frame(t, r, "call")

Call(t, r) ==
    /\ pc[t] = "idle"
    /\ Begin(t, r)
    /\ UNCHANGED chain

\* the caller is done with the result of a call that is not part of a chain
Finish(t) ==
    /\ pc[t] = "done"
    /\ chain[t].stage \in {0, 3, 4}
    /\ Frame(t, NoRequest, "idle")
    /\ chain' = [chain EXCEPT ![t] = NoChain]

\* checksum(prefix, 0), then checksum(suffix, that value), then checksum(data, 0)
ChainStart(t, data, k) ==
    /\ pc[t] = "idle"
    /\ chain' = [chain EXCEPT ![t] = [NoChain EXCEPT !.stage = 1, !.data = data,
                                                      !.k = k, !.hwok = TRUE]]
    /\ Begin(t, Request("crc32", SubSeq(data, 1, k), <<>>, ZeroU32, ZeroU64))

ChainNext(t) ==
    /\ pc[t] = "done"
    /\ chain[t].stage \in {1, 2}
    /\ LET c == chain[t]
           ok == c.hwok /\ ret[t].kind = "Ok"
       IN  IF c.stage = 1
           THEN /\ chain' = [chain EXCEPT ![t] = [c EXCEPT !.stage = 2, !.hwok = ok]]
                /\ Begin(t, [Request("crc32", SubSeq(c.data, c.k + 1, Len(c.data)),
                                     <<>>, ret[t].crc, ZeroU64)
                               EXCEPT !.fbseed = fb[t].ret.crc])
           ELSE /\ chain' = [chain EXCEPT ![t] = [c EXCEPT !.stage = 3, !.hwok = ok,
                                                           !.hw = ret[t],
                                                           !.fb = fb[t].ret]]
                /\ Begin(t, Request("crc32", c.data, <<>>, ZeroU32, ZeroU64))

\* the same call once more, on unchanged buffers
Repeat(t) ==
    /\ pc[t] = "done"
    /\ chain[t].stage \in {0, 4}
    /\ req[t].op \in {"crc32", "memcmp"}
    /\ chain' = [chain EXCEPT ![t] =
                   [NoChain EXCEPT !.stage = 4,
                                   !.hw = IF ret[t].kind = "Ok" THEN ret[t] ELSE chain[t].hw,
                                   !.fb = fb[t].ret]]
    /\ Begin(t, req[t])

(***************************************************************************)
(* windows_impl::WorkQueue: the call on the software fallback.             *)
(***************************************************************************)
WinCall(r) ==
    CASE r.op = "crc32" -> [ret |-> win_crc32(r.a, r.fbseed), dst |-> r.b]
      [] r.op = "memcpy" -> win_memcpy(r.b, r.a)
      [] r.op = "memset" -> win_memset(r.b, r.pattern)
      [] r.op = "memcmp" -> [ret |-> win_memcmp(r.a, r.b), dst |-> r.b]
      [] r.op = "noop" -> [ret |-> win_noop, dst |-> r.b]

Fallback(t) ==
    /\ pc[t] = "call"
    /\ fb' = [fb EXCEPT ![t] = WinCall(req[t])]
    /\ pc' = [pc EXCEPT ![t] = "entry"]
    /\ UNCHANGED <<host, wq, req, chain, mem, completion, desc, attempts, polls, ret, devq, served, tally>>

(***************************************************************************)
(* linux_impl::WorkQueue: each operation up to its call of submit.         *)
(***************************************************************************)
Return(t, r) ==
    /\ ret' = [ret EXCEPT ![t] = r]
    /\ pc' = [pc EXCEPT ![t] = "done"]
    \* a descriptor of this call that the device still holds outlives the call
    /\ devq' = [i \in 1..Len(devq) |->
                  IF devq[i].owner = t THEN [devq[i] EXCEPT !.orphan = TRUE,
                                                            !.desc = DsaHwDesc_new]
                  ELSE devq[i]]

ReturnEarly(t, r) ==
    /\ Return(t, r)
    /\ UNCHANGED <<host, wq, req, chain, mem, completion, desc, attempts, polls, fb, served, tally>>

ToSubmit(t, d) ==
    /\ completion' = [completion EXCEPT ![t] = DsaCompletionRecord_new]
    /\ desc' = [desc EXCEPT ![t] = d]
    /\ pc' = [pc EXCEPT ![t] = "submit"]
    /\ UNCHANGED <<host, wq, req, chain, mem, attempts, polls, ret, fb, devq, served, tally>>

(***************************************************************************)
(* Seeded faults: variants of the operations below with one check changed. *)
(* A property that still holds with the variant in place of the operation  *)
(* does not depend on that check.                                          *)
(***************************************************************************)
\* memcpy reporting the two lengths the wrong way round
memcpy_swapped(t) ==
    /\ pc[t] = "entry" /\ req[t].op = "memcpy"
    /\ LET dst == mem[t].b
           src == mem[t].a
       IN  IF Len(dst) < Len(src)
           THEN ReturnEarly(t, BufferSizeMismatch(Len(dst), Len(src)))
           ELSE IF src = <<>>
           THEN ReturnEarly(t, Ok)
           ELSE ToSubmit(t, mem_move(AddrB(t), AddrA(t), Len(src), AddrCompletion(t)))

\* memcpy copying what fits into dst before it reports the mismatch
memcpy_copy_then_check(t) ==
    /\ pc[t] = "entry" /\ req[t].op = "memcpy"
    /\ LET dst == mem[t].b
           src == mem[t].a
       IN  IF Len(dst) < Len(src)
           THEN /\ Return(t, BufferSizeMismatch(Len(src), Len(dst)))
                /\ mem' = [mem EXCEPT ![t].b = SubSeq(src, 1, Len(dst))]
                /\ UNCHANGED <<host, wq, req, chain, completion, desc, attempts, polls, fb,
                               served, tally>>
           ELSE IF src = <<>>
           THEN ReturnEarly(t, Ok)
           ELSE ToSubmit(t, mem_move(AddrB(t), AddrA(t), Len(src), AddrCompletion(t)))

\* memcpy without its early return for an empty source
memcpy_always_submits(t) ==
    /\ pc[t] = "entry" /\ req[t].op = "memcpy"
    /\ LET dst == mem[t].b
           src == mem[t].a
       IN  IF Len(dst) < Len(src)
           THEN ReturnEarly(t, BufferSizeMismatch(Len(src), Len(dst)))
           ELSE ToSubmit(t, mem_move(AddrB(t), AddrA(t), Len(src), AddrCompletion(t)))

\* memcmp checking the lengths only after the empty case
memcmp_late_check(t) ==
    /\ pc[t] = "entry" /\ req[t].op = "memcmp"
    /\ LET a == mem[t].a
           b == mem[t].b
       IN  IF a = <<>>
           THEN ReturnEarly(t, OkBool(TRUE))
           ELSE IF Len(a) # Len(b)
           THEN ReturnEarly(t, BufferSizeMismatch(Len(a), Len(b)))
           ELSE ToSubmit(t, compare(AddrA(t), AddrB(t), Len(a), AddrCompletion(t)))

\* crc32 without its early return for empty data
crc32_always_submits(t) ==
    /\ pc[t] = "entry" /\ req[t].op = "crc32"
    /\ LET data == mem[t].a
           seed == req[t].seed
       IN  ToSubmit(t, crc_gen(AddrA(t), Len(data), seed, AddrCompletion(t)))

crc32(t) ==
    /\ pc[t] = "entry" /\ req[t].op = "crc32"
    /\ LET data == mem[t].a
           seed == req[t].seed
       IN  IF data = <<>>
           THEN ReturnEarly(t, OkCrc(seed))
           ELSE ToSubmit(t, crc_gen(AddrA(t), Len(data), seed, AddrCompletion(t)))

memcpy(t) ==
    /\ pc[t] = "entry" /\ req[t].op = "memcpy"
    /\ LET dst == mem[t].b
           src == mem[t].a
       IN  IF Len(dst) < Len(src)
           THEN ReturnEarly(t, BufferSizeMismatch(Len(src), Len(dst)))
           ELSE IF src = <<>>
           THEN ReturnEarly(t, Ok)
           ELSE ToSubmit(t, mem_move(AddrB(t), AddrA(t), Len(src), AddrCompletion(t)))

memset(t) ==
    /\ pc[t] = "entry" /\ req[t].op = "memset"
    /\ LET dst == mem[t].b
       IN  IF dst = <<>>
           THEN ReturnEarly(t, Ok)
           ELSE ToSubmit(t, mem_fill(AddrB(t), Len(dst), req[t].pattern, AddrCompletion(t)))

memcmp(t) ==
    /\ pc[t] = "entry" /\ req[t].op = "memcmp"
    /\ LET a == mem[t].a
           b == mem[t].b
       IN  IF Len(a) # Len(b)
           THEN ReturnEarly(t, BufferSizeMismatch(Len(a), Len(b)))
           ELSE IF a = <<>>
           THEN ReturnEarly(t, OkBool(TRUE))
           ELSE ToSubmit(t, compare(AddrA(t), AddrB(t), Len(a), AddrCompletion(t)))

noop(t) ==
    /\ pc[t] = "entry" /\ req[t].op = "noop"
    /\ ToSubmit(t, desc_noop(AddrCompletion(t)))

(***************************************************************************)
(* linux_impl::WorkQueue::submit and submit.rs                             *)
(***************************************************************************)
Entry(t) == [owner |-> t, orphan |-> FALSE, desc |-> desc[t]]

\* a posted write that reported a full queue to the caller
movdir64b_reports_full(t) ==
    /\ pc[t] = "submit"
    /\ wq.wq_type = "Dedicated"
    /\ IF Len(devq) < WqSize
       THEN /\ devq' = Append(devq, Entry(t))
            /\ tally' = [tally EXCEPT ![t].accepted = @ + 1]
            /\ attempts' = [attempts EXCEPT ![t] = 1]
            /\ pc' = [pc EXCEPT ![t] = "wait"]
            /\ UNCHANGED ret
       ELSE /\ Return(t, QueueFull)
            /\ attempts' = [attempts EXCEPT ![t] = 1]
            /\ UNCHANGED tally
    /\ UNCHANGED <<host, wq, req, chain, mem, completion, desc, polls, fb, served>>

\* MOVDIR64B: a posted write.  A full queue drops it: nothing tells the caller.
movdir64b(t) ==
    /\ pc[t] = "submit"
    /\ wq.wq_type = "Dedicated"
    /\ devq' = IF Len(devq) < WqSize THEN Append(devq, Entry(t)) ELSE devq
    /\ tally' = [tally EXCEPT ![t].accepted = IF Len(devq) < WqSize THEN @ + 1 ELSE @]
    /\ attempts' = [attempts EXCEPT ![t] = 1]
    /\ pc' = [pc EXCEPT ![t] = "wait"]
    /\ UNCHANGED <<host, wq, req, chain, mem, completion, desc, polls, ret, fb, served>>

\* enqcmd_retry's loop running from 0 to max_retries inclusive
enqcmd_one_more(t) ==
    /\ pc[t] = "submit"
    /\ wq.wq_type = "Shared"
    /\ attempts[t] <= wq.max_retries
    /\ IF Len(devq) < WqSize
       THEN /\ devq' = Append(devq, Entry(t))
            /\ tally' = [tally EXCEPT ![t].accepted = @ + 1]
            /\ attempts' = [attempts EXCEPT ![t] = @ + 1]
            /\ pc' = [pc EXCEPT ![t] = "wait"]
       ELSE /\ attempts' = [attempts EXCEPT ![t] = @ + 1]
            /\ UNCHANGED <<devq, pc, tally>>
    /\ UNCHANGED <<host, wq, req, chain, mem, completion, desc, polls, ret, fb, served>>

\* ENQCMD inside enqcmd_retry's loop: one attempt, accepted if the queue has room.
enqcmd(t) ==
    /\ pc[t] = "submit"
    /\ wq.wq_type = "Shared"
    /\ attempts[t] < wq.max_retries
    /\ IF Len(devq) < WqSize
       THEN /\ devq' = Append(devq, Entry(t))
            /\ tally' = [tally EXCEPT ![t].accepted = @ + 1]
            /\ attempts' = [attempts EXCEPT ![t] = @ + 1]
            /\ pc' = [pc EXCEPT ![t] = "wait"]
       ELSE /\ attempts' = [attempts EXCEPT ![t] =
                              IF @ + 1 >= MaxTries THEN wq.max_retries ELSE @ + 1]
            /\ UNCHANGED <<devq, pc, tally>>
    /\ UNCHANGED <<host, wq, req, chain, mem, completion, desc, polls, ret, fb, served>>

\* enqcmd_retry giving up at the first rejected attempt, whatever the budget
enqcmd_retry_gives_up(t) ==
    /\ pc[t] = "submit"
    /\ wq.wq_type = "Shared"
    /\ attempts[t] >= 1 \/ attempts[t] >= wq.max_retries
    /\ Return(t, QueueFull)
    /\ UNCHANGED <<host, wq, req, chain, mem, completion, desc, attempts, polls, fb, served,
                   tally>>

\* enqcmd_retry starting its loop over when the budget is used up
enqcmd_retry_starts_over(t) ==
    /\ pc[t] = "submit"
    /\ wq.wq_type = "Shared"
    /\ attempts[t] >= wq.max_retries
    /\ attempts' = [attempts EXCEPT ![t] = 0]
    /\ UNCHANGED <<host, wq, req, chain, pc, mem, completion, desc, polls, ret, fb, devq,
                   served, tally>>

\* enqcmd_retry's loop is over: submit returns Err(QueueFull) and so does the call.
enqcmd_retry_exhausted(t) ==
    /\ pc[t] = "submit"
    /\ wq.wq_type = "Shared"
    /\ attempts[t] >= wq.max_retries
    /\ Return(t, QueueFull)
    /\ UNCHANGED <<host, wq, req, chain, mem, completion, desc, attempts, polls, fb, served, tally>>

(***************************************************************************)
(* linux_impl::WorkQueue::wait_for_completion and the tail of each call.   *)
(***************************************************************************)
\* the status match of wait_for_completion taking every status but PageFault
\* for Success
CallResult_lenient(t) ==
    LET record == completion[t]
        status == get_status(record)
    IN  CASE status.tag = "PageFault" ->
               PageFault(record.fault_addr, record.bytes_completed)
          [] OTHER ->
               (CASE req[t].op = "crc32" -> OkCrc(crc32_result(record))
                  [] req[t].op = "memcmp" -> OkBool(compare_result(record))
                  [] OTHER -> Ok)

\* the PageFault arm reporting the requested length in place of the count
\* the device wrote
CallResult_whole_length(t) ==
    LET record == completion[t]
        status == get_status(record)
    IN  CASE status.tag = "Success" ->
               (CASE req[t].op = "crc32" -> OkCrc(crc32_result(record))
                  [] req[t].op = "memcmp" -> OkBool(compare_result(record))
                  [] OTHER -> Ok)
          [] status.tag = "PageFault" ->
               PageFault(record.fault_addr, desc[t].xfer_size)
          [] OTHER -> OperationFailed(record.status, record.result)

\* the generic arm reporting the status without the result byte
CallResult_no_result(t) ==
    LET record == completion[t]
        status == get_status(record)
    IN  CASE status.tag = "Success" ->
               (CASE req[t].op = "crc32" -> OkCrc(crc32_result(record))
                  [] req[t].op = "memcmp" -> OkBool(compare_result(record))
                  [] OTHER -> Ok)
          [] status.tag = "PageFault" ->
               PageFault(record.fault_addr, record.bytes_completed)
          [] OTHER -> OperationFailed(record.status, 0)

CallResult(t) ==
    LET record == completion[t]
        status == get_status(record)
    IN  CASE status.tag = "Success" ->
               (CASE req[t].op = "crc32" -> OkCrc(crc32_result(record))
                  [] req[t].op = "memcmp" -> OkBool(compare_result(record))
                  [] OTHER -> Ok)
          [] status.tag = "PageFault" ->
               PageFault(record.fault_addr, record.bytes_completed)
          [] OTHER -> OperationFailed(record.status, record.result)

\* wait_for_completion submitting the descriptor again after a page fault
wait_poll_resubmits(t) ==
    /\ pc[t] = "wait"
    /\ polls[t] < wq.spin_iterations
    /\ IF is_complete(completion[t]) /\ completion[t].status # ST_PAGE_FAULT
       THEN /\ Return(t, CallResult(t))
            /\ tally' = [tally EXCEPT ![t].reads = polls[t] + 1,
                                      ![t].seen = completion[t].status]
            /\ UNCHANGED <<polls, completion>>
       ELSE IF is_complete(completion[t])
       THEN /\ completion' = [completion EXCEPT ![t] = DsaCompletionRecord_new]
            /\ pc' = [pc EXCEPT ![t] = "submit"]
            /\ UNCHANGED <<polls, tally, ret, devq>>
       ELSE /\ polls' = [polls EXCEPT ![t] =
                           IF @ + 1 >= MaxPolls THEN wq.spin_iterations ELSE @ + 1]
            /\ tally' = [tally EXCEPT ![t].reads = polls'[t]]
            /\ UNCHANGED <<pc, ret, devq, completion>>
    /\ UNCHANGED <<host, wq, req, chain, mem, desc, attempts, fb, served>>

\* the polling loop running from 0 to spin_iterations inclusive
wait_poll_one_more(t) ==
    /\ pc[t] = "wait"
    /\ polls[t] <= wq.spin_iterations
    /\ IF is_complete(completion[t])
       THEN /\ Return(t, CallResult(t))
            /\ tally' = [tally EXCEPT ![t].reads = polls[t] + 1,
                                      ![t].seen = completion[t].status]
            /\ UNCHANGED polls
       ELSE /\ polls' = [polls EXCEPT ![t] = @ + 1]
            /\ tally' = [tally EXCEPT ![t].reads = polls'[t]]
            /\ UNCHANGED <<pc, ret, devq>>
    /\ UNCHANGED <<host, wq, req, chain, mem, completion, desc, attempts, fb, served>>

wait_poll(t) ==
    /\ pc[t] = "wait"
    /\ polls[t] < wq.spin_iterations
    /\ IF is_complete(completion[t])
       THEN /\ Return(t, CallResult(t))
            /\ tally' = [tally EXCEPT ![t].reads = polls[t] + 1,
                                      ![t].seen = completion[t].status]
            /\ UNCHANGED polls
       ELSE /\ polls' = [polls EXCEPT ![t] =
                           IF @ + 1 >= MaxPolls THEN wq.spin_iterations ELSE @ + 1]
            /\ tally' = [tally EXCEPT ![t].reads = polls'[t]]
            /\ UNCHANGED <<pc, ret, devq>>
    /\ UNCHANGED <<host, wq, req, chain, mem, completion, desc, attempts, fb, served>>

\* the timeout path reporting what the record holds by then
wait_timeout_reads_record(t) ==
    /\ pc[t] = "wait"
    /\ polls[t] >= wq.spin_iterations
    /\ Return(t, OperationFailed(completion[t].status, completion[t].result))
    /\ UNCHANGED <<host, wq, req, chain, mem, completion, desc, attempts, polls, fb, served, tally>>

wait_timeout(t) ==
    /\ pc[t] = "wait"
    /\ polls[t] >= wq.spin_iterations
    /\ Return(t, OperationFailed(0, 0))
    /\ UNCHANGED <<host, wq, req, chain, mem, completion, desc, attempts, polls, fb, served, tally>>

(***************************************************************************)
(* linux_impl::WorkQueue::set_wq_type (&mut self: on a live handle, with   *)
(* no call in progress)                                                    *)
(***************************************************************************)
set_wq_type(wq_type) ==
    /\ portal.state = "mapped"
    /\ \A t \in Threads : pc[t] = "idle"
    /\ wq' = [wq EXCEPT !.wq_type = wq_type]
    /\ UNCHANGED <<host, req, chain, pc, mem, completion, desc, attempts, polls, ret, fb, devq, served, tally>>

\* linux_impl::WorkQueue::set_max_retries and set_spin_iterations
set_max_retries(retries) ==
    /\ portal.state = "mapped"
    /\ \A t \in Threads : pc[t] = "idle"
    /\ wq' = [wq EXCEPT !.max_retries = retries]
    /\ UNCHANGED <<host, req, chain, pc, mem, completion, desc, attempts, polls, ret, fb, devq, served, tally>>

set_spin_iterations(iterations) ==
    /\ portal.state = "mapped"
    /\ \A t \in Threads : pc[t] = "idle"
    /\ wq' = [wq EXCEPT !.spin_iterations = iterations]
    /\ UNCHANGED <<host, req, chain, pc, mem, completion, desc, attempts, polls, ret, fb, devq, served, tally>>

(***************************************************************************)
(* The device takes the descriptor at the head of its queue.               *)
(***************************************************************************)
RecordAt(addr) == AddrOwner(addr) \in Threads /\ AddrRegion(addr) = 3

DevExecute ==
    /\ devq # <<>>
    /\ ~Head(devq).orphan
    /\ LET d == Head(devq).desc
           t == Head(devq).owner
       IN  \E o \in DevOutcomes(d, mem[t]) :
             /\ mem' = [mem EXCEPT ![t] = o.m]
             /\ IF RecordAt(d.completion_addr)
                THEN /\ completion' = [completion EXCEPT
                                         ![AddrOwner(d.completion_addr)] = o.cr]
                     /\ served' = [served EXCEPT ![t] =
                                     (o.cr.status = ST_SUCCESS
                                      /\ AddrOwner(d.completion_addr) = t)]
                ELSE UNCHANGED <<completion, served>>
    /\ devq' = Tail(devq)
    /\ UNCHANGED <<host, wq, req, chain, pc, desc, attempts, polls, ret, fb, tally>>

\* The descriptor's call has returned and its stack frame is gone: the
\* completion write goes to memory that no longer holds a record ...
DevOrphanLost ==
    /\ devq # <<>>
    /\ Head(devq).orphan
    /\ devq' = Tail(devq)
    /\ UNCHANGED <<host, wq, req, chain, pc, mem, completion, desc, attempts, polls, ret, fb, served, tally>>

\* ... or to the record a later call of the same thread has put at that place.
DevOrphanHit ==
    /\ devq # <<>>
    /\ Head(devq).orphan
    /\ pc[Head(devq).owner] \in {"submit", "wait"}
    /\ \E r \in OrphanRecords :
         completion' = [completion EXCEPT ![Head(devq).owner] = r]
    /\ devq' = Tail(devq)
    /\ UNCHANGED <<host, wq, req, chain, pc, mem, desc, attempts, polls, ret, fb, served, tally>>

(***************************************************************************)
(* One caller on the handle, every operation, both work queues.            *)
(***************************************************************************)
Callers == {1}

Next ==
    \/ \E t \in Callers, r \in Requests : Call(t, r)
    \/ \E t \in Callers, c \in ChainSplits : ChainStart(t, c[1], c[2])
    \/ \E t \in Callers : ChainNext(t)
    \/ \E t \in Callers : Repeat(t)
    \/ \E t \in Callers : Finish(t)
    \/ \E t \in Callers : Fallback(t)
    \/ \E t \in Callers : crc32(t)
    \/ \E t \in Callers : memcpy(t)
    \/ \E t \in Callers : memset(t)
    \/ \E t \in Callers : memcmp(t)
    \/ \E t \in Callers : noop(t)
    \/ \E t \in Callers : movdir64b(t)
    \/ \E t \in Callers : enqcmd(t)
    \/ \E t \in Callers : enqcmd_retry_exhausted(t)
    \/ \E t \in Callers : wait_poll(t)
    \/ \E t \in Callers : wait_timeout(t)
    \/ \E ty \in {"Dedicated", "Shared"} : set_wq_type(ty)
    \/ DevExecute
    \/ DevOrphanLost
    \/ DevOrphanHit

Spec == Init /\ [][Next]_vars

(***************************************************************************)
(* The same handle with its budgets set by the caller.  The budgets are    *)
(* small enough for every retry and every poll to be a step of its own.    *)
(* A thread inside a hardware-path call keeps running: its next step is    *)
(* taken (weak fairness); nothing is assumed of the device or of the       *)
(* caller making further calls.                                            *)
(***************************************************************************)
RetryBudgets == {0, 1, MaxTries, DEFAULT_MAX_RETRIES}
SpinBudgets == {0, 1, MaxPolls, DEFAULT_SPIN_ITERATIONS}

BudgetRequests == {r \in Requests : Len(r.a) <= 1 /\ Len(r.b) <= 1}

ThreadStep(t) ==
    \/ crc32(t) \/ memcpy(t) \/ memset(t) \/ memcmp(t) \/ noop(t)
    \/ movdir64b(t) \/ enqcmd(t) \/ enqcmd_retry_exhausted(t)
    \/ wait_poll(t) \/ wait_timeout(t)

NextBudget ==
    \/ \E t \in Callers, r \in BudgetRequests : Call(t, r)
    \/ \E t \in Callers : Finish(t)
    \/ \E t \in Callers : Fallback(t)
    \/ \E t \in Callers : ThreadStep(t)
    \/ \E ty \in {"Dedicated", "Shared"} : set_wq_type(ty)
    \/ \E n \in RetryBudgets : set_max_retries(n)
    \/ \E n \in SpinBudgets : set_spin_iterations(n)
    \/ DevExecute
    \/ DevOrphanLost
    \/ DevOrphanHit

SpecBudget == Init /\ [][NextBudget]_vars /\ \A t \in Callers : WF_vars(ThreadStep(t))

(***************************************************************************)
(* Properties.  A call that has returned is at pc = "done": ret is what    *)
(* linux_impl returned and mem its buffers, fb what windows_impl returned  *)
(* and left in dst for the same arguments.                                 *)
(***************************************************************************)
Returned(t, op) == pc[t] = "done" /\ req[t].op = op

\* the call never reached the device: no submission instruction was issued
\* and no descriptor was built
NoSubmission(t) == attempts[t] = 0 /\ desc[t] = DsaHwDesc_new /\ ~served[t]

\* byte j (from 0) of the 64-bit pattern in little-endian order
PatternByte(p, j) ==
    IF j % 2 = 0 THEN p[(j \div 2) + 1] % 256 ELSE p[(j \div 2) + 1] \div 256

\* C1: after copy(dst, src) returns success with len(dst) >= len(src), on
\* either path, the first len(src) bytes of dst equal src.
C1_CopyCorrect ==
    \A t \in Threads :
        (Returned(t, "memcpy") /\ Len(req[t].b) >= Len(req[t].a)) =>
            /\ ret[t].kind = "Ok" =>
                   SubSeq(mem[t].b, 1, Len(req[t].a)) = req[t].a
            /\ fb[t].ret.kind = "Ok" =>
                   SubSeq(fb[t].dst, 1, Len(req[t].a)) = req[t].a

\* a copy of XferWrap + 1 bytes that the hardware path reported as done by
\* its own descriptor, with dst not holding src
C1_ShortCopy ==
    \E t \in Threads :
        /\ Returned(t, "memcpy") /\ served[t] /\ ret[t].kind = "Ok"
        /\ Len(req[t].a) = XferWrap + 1 /\ Len(req[t].b) = XferWrap + 1
        /\ mem[t].b # req[t].a
        /\ desc[t].xfer_size = 1

\* C2: copy with len(dst) < len(src) fails with BufferSizeMismatch whose
\* expected is len(src) and whose actual is len(dst), on both paths, an empty
\* dst with a non-empty src included.
C2_CopyMismatch ==
    \A t \in Threads :
        (Returned(t, "memcpy") /\ Len(req[t].b) < Len(req[t].a)) =>
            /\ ret[t] = BufferSizeMismatch(Len(req[t].a), Len(req[t].b))
            /\ fb[t].ret = BufferSizeMismatch(Len(req[t].a), Len(req[t].b))

C2_Witness ==
    \E t \in Threads :
        /\ Returned(t, "memcpy")
        /\ req[t].b = <<>> /\ Len(req[t].a) > 0
        /\ ret[t].kind = "BufferSizeMismatch"
        /\ fb[t].ret.kind = "BufferSizeMismatch"

\* C3: copy(dst, []) succeeds for every dst, leaves dst unchanged and submits
\* nothing to the hardware.
C3_CopyEmptySource ==
    \A t \in Threads :
        (Returned(t, "memcpy") /\ req[t].a = <<>>) =>
            /\ ret[t] = Ok /\ mem[t].b = req[t].b /\ NoSubmission(t)
            /\ fb[t].ret = Ok /\ fb[t].dst = req[t].b

C3_Witness ==
    \E t \in Threads :
        /\ Returned(t, "memcpy")
        /\ req[t].a = <<>> /\ Len(req[t].b) > 0
        /\ ret[t].kind = "Ok" /\ fb[t].ret.kind = "Ok"

\* C4: after fill(dst, pattern) returns success, on either path, byte i of dst
\* is byte (i mod 8) of the little-endian encoding of pattern, for every i.
C4_FillCorrect ==
    \A t \in Threads :
        Returned(t, "memset") =>
            /\ ret[t].kind = "Ok" =>
                   \A i \in 1..Len(req[t].b) :
                       mem[t].b[i] = PatternByte(req[t].pattern, (i - 1) % 8)
            /\ fb[t].ret.kind = "Ok" =>
                   \A i \in 1..Len(req[t].b) :
                       fb[t].dst[i] = PatternByte(req[t].pattern, (i - 1) % 8)

\* a fill of XferWrap + 1 bytes reported as done by its own descriptor, with
\* only the first byte of dst written
C4_ShortFill ==
    \E t \in Threads :
        /\ Returned(t, "memset") /\ served[t] /\ ret[t].kind = "Ok"
        /\ Len(req[t].b) = XferWrap + 1
        /\ desc[t].xfer_size = 1
        /\ mem[t].b[1] = PatternByte(req[t].pattern, 0)
        /\ \A i \in 2..Len(req[t].b) : mem[t].b[i] = req[t].b[i]

\* C5: compare(a, b) with len(a) = len(b) that returns a boolean returns true
\* exactly when a and b hold the same bytes, on either path; compare([], [])
\* returns true.
C5_CompareCorrect ==
    \A t \in Threads :
        (Returned(t, "memcmp") /\ Len(req[t].a) = Len(req[t].b)) =>
            /\ ret[t].kind = "Ok" => (ret[t].eq <=> req[t].a = req[t].b)
            /\ fb[t].ret = OkBool(req[t].a = req[t].b)
            /\ req[t].a = <<>> => ret[t] = OkBool(TRUE)

\* two buffers of XferWrap + 1 bytes that differ, reported equal by the
\* call's own descriptor
C5_ShortCompare ==
    \E t \in Threads :
        /\ Returned(t, "memcmp") /\ served[t]
        /\ Len(req[t].a) = XferWrap + 1 /\ Len(req[t].b) = XferWrap + 1
        /\ req[t].a # req[t].b
        /\ desc[t].xfer_size = 1
        /\ ret[t] = OkBool(TRUE)

\* C6: compare(a, b) with len(a) # len(b) fails with BufferSizeMismatch
\* (expected len(a), actual len(b)) on both paths and never returns a boolean.
C6_CompareMismatch ==
    \A t \in Threads :
        (Returned(t, "memcmp") /\ Len(req[t].a) # Len(req[t].b)) =>
            /\ ret[t] = BufferSizeMismatch(Len(req[t].a), Len(req[t].b))
            /\ fb[t].ret = BufferSizeMismatch(Len(req[t].a), Len(req[t].b))

C6_Witness ==
    \E t \in Threads :
        /\ Returned(t, "memcmp")
        /\ req[t].a = <<>> /\ Len(req[t].b) > 0
        /\ ret[t].kind = "BufferSizeMismatch"
        /\ fb[t].ret.kind = "BufferSizeMismatch"

\* C7: checksum([], seed) returns seed unchanged on both paths, and the
\* hardware path submits nothing.
C7_ChecksumEmpty ==
    \A t \in Threads :
        (Returned(t, "crc32") /\ req[t].a = <<>>) =>
            /\ ret[t] = OkCrc(req[t].seed) /\ NoSubmission(t)
            /\ fb[t].ret = OkCrc(req[t].fbseed)

C7_Witness ==
    \E t \in Threads :
        /\ Returned(t, "crc32")
        /\ req[t].a = <<>> /\ req[t].seed # ZeroU32
        /\ ret[t].kind = "Ok" /\ ret[t].crc = req[t].seed

\* C8: for every split data = prefix ++ suffix,
\* checksum(suffix, checksum(prefix, 0)) = checksum(data, 0), on either path,
\* whenever the three calls succeed.
C8_ChecksumChaining ==
    \A t \in Threads :
        (Returned(t, "crc32") /\ chain[t].stage = 3) =>
            /\ (chain[t].hwok /\ ret[t].kind = "Ok") => ret[t].crc = chain[t].hw.crc
            /\ fb[t].ret.crc = chain[t].fb.crc

\* a buffer of XferWrap + 1 bytes split into two pieces shorter than XferWrap:
\* the three calls succeed on the hardware path, each by its own descriptor,
\* and the chained value is not the value of the whole
C8_ShortChecksum ==
    \E t \in Threads :
        /\ Returned(t, "crc32") /\ chain[t].stage = 3 /\ served[t]
        /\ Len(chain[t].data) = XferWrap + 1 /\ chain[t].k = 2
        /\ chain[t].hwok /\ ret[t].kind = "Ok"
        /\ desc[t].xfer_size = 1
        /\ ret[t].crc # chain[t].hw.crc
        /\ chain[t].hw.crc = fb[t].ret.crc

\* C9: for the same input the fallback returns what the hardware path returns,
\* and leaves the same bytes in dst, whenever the device accepted the
\* descriptor and completed it with Success (or the call needed no device).
C9_CrossPath ==
    \A t \in Threads :
        (/\ pc[t] = "done"
         /\ req[t].seed = req[t].fbseed
         /\ served[t] \/ attempts[t] = 0) =>
            /\ ret[t] = fb[t].ret
            /\ mem[t].b = fb[t].dst

\* a checksum over XferWrap + 1 bytes, completed with Success by the call's
\* own descriptor, whose value is not the fallback's
C9_PathsDiffer ==
    \E t \in Threads :
        /\ Returned(t, "crc32") /\ served[t] /\ chain[t].stage = 0
        /\ req[t].seed = req[t].fbseed
        /\ Len(req[t].a) = XferWrap + 1
        /\ ret[t].kind = "Ok" /\ fb[t].ret.kind = "Ok"
        /\ ret[t].crc # fb[t].ret.crc

\* C10: two successful calls of checksum with the same data and seed return
\* the same value, on either path.
C10_ChecksumDeterministic ==
    \A t \in Threads :
        (Returned(t, "crc32") /\ chain[t].stage = 4) =>
            /\ (ret[t].kind = "Ok" /\ chain[t].hw.kind = "Ok") =>
                   ret[t].crc = chain[t].hw.crc
            /\ fb[t].ret = chain[t].fb

\* the repeated call returned a value its own descriptor did not produce: the
\* completion of a descriptor left in flight by a call that had already
\* returned was written into this call's record
C10_StaleResult ==
    \E t \in Threads :
        /\ Returned(t, "crc32") /\ chain[t].stage = 4
        /\ ret[t].kind = "Ok" /\ chain[t].hw.kind = "Ok"
        /\ ret[t].crc # chain[t].hw.crc
        /\ ~served[t] /\ attempts[t] > 0

\* the call got past submit and into wait_for_completion
Waited(t) == pc[t] = "done" /\ attempts[t] > 0 /\ ret[t].kind # "QueueFull"

FastPath(t) ==
    CASE req[t].op = "crc32" -> req[t].a = <<>>
      [] req[t].op = "memcpy" -> req[t].a = <<>>
      [] req[t].op = "memset" -> req[t].b = <<>>
      [] req[t].op = "memcmp" -> req[t].a = <<>> /\ req[t].b = <<>>
      [] OTHER -> FALSE

\* C12 as stated: every call has exactly one descriptor accepted by the
\* device, or none if it is an empty-input fast path.
C12_ExactlyOne ==
    \A t \in Threads :
        pc[t] = "done" =>
            tally[t].accepted = IF FastPath(t) THEN 0 ELSE 1

\* C12, amended: a call never has more than one descriptor accepted, so no
\* outcome is followed by a resubmission.  None is accepted when the call
\* returns before submitting or returns QueueFull; on a Shared queue exactly
\* one is accepted when the call gets past submit; on a Dedicated queue the
\* call issues exactly one posted write.
C12_AtMostOne ==
    \A t \in Threads :
        /\ tally[t].accepted <= 1
        /\ Cardinality({i \in 1..Len(devq) :
                          devq[i].owner = t /\ ~devq[i].orphan}) <= tally[t].accepted
        /\ pc[t] = "done" =>
            /\ (attempts[t] = 0 \/ ret[t].kind = "QueueFull") => tally[t].accepted = 0
            /\ (ret[t].kind \in {"BufferSizeMismatch"} \/ FastPath(t)) => attempts[t] = 0
            /\ (wq.wq_type = "Shared" /\ Waited(t)) => tally[t].accepted = 1
            /\ (wq.wq_type = "Dedicated" /\ attempts[t] > 0) => attempts[t] = 1

C12_Witness ==
    \E t \in Threads :
        /\ pc[t] = "done" /\ wq.wq_type = "Shared"
        /\ ret[t].kind = "PageFault"
        /\ served[t] = FALSE /\ tally[t].accepted = 1 /\ attempts[t] = 2

\* C13: whenever copy or compare returns BufferSizeMismatch, no submission
\* was attempted, no status record was polled, no descriptor or completion
\* record was built, and the caller's buffers are as they were.
C13_ValidationFirst ==
    \A t \in Threads :
        (pc[t] = "done" /\ ret[t].kind = "BufferSizeMismatch") =>
            /\ req[t].op \in {"memcpy", "memcmp"}
            /\ attempts[t] = 0 /\ polls[t] = 0 /\ tally[t] = NoTally
            /\ desc[t] = DsaHwDesc_new
            /\ completion[t] = DsaCompletionRecord_new
            /\ mem[t] = [a |-> req[t].a, b |-> req[t].b]
            /\ \A i \in 1..Len(devq) : devq[i].owner = t => devq[i].orphan

C13_Witness ==
    \E t \in Threads :
        /\ Returned(t, "memcpy") /\ ret[t].kind = "BufferSizeMismatch"
        /\ Len(req[t].b) > 0 /\ Len(req[t].a) > Len(req[t].b)
        /\ mem[t].b = req[t].b

\* C14: no checksum, copy, fill or compare descriptor the device has accepted
\* carries a transfer length of zero.
C14_NoZeroLength ==
    \A i \in 1..Len(devq) :
        (~devq[i].orphan /\ opcode(devq[i].desc) # Noop) =>
            devq[i].desc.xfer_size # 0

\* a checksum over XferWrap bytes: the device holds its descriptor, whose
\* transfer length is zero
C14_ZeroLength ==
    \E i \in 1..Len(devq) :
        LET t == devq[i].owner
        IN  /\ ~devq[i].orphan
            /\ req[t].op = "crc32" /\ Len(req[t].a) = XferWrap
            /\ opcode(devq[i].desc) = CrcGen
            /\ devq[i].desc.xfer_size = 0
            /\ pc[t] = "wait"

\* C15: a call that reached wait_for_completion returns success exactly when
\* a status read within the poll budget saw the Success code; then checksum
\* returns the low 32 bits of the record's result value and compare returns
\* (result byte = 0).  A call that is not a fast path succeeds in no other way.
C15_WaiterSuccess ==
    \A t \in Threads :
        /\ Waited(t) =>
            /\ ret[t].kind = "Ok" <=>
                   /\ tally[t].seen = ST_SUCCESS
                   /\ tally[t].reads \in 1..wq.spin_iterations
            /\ (ret[t].kind = "Ok" /\ req[t].op = "crc32") =>
                   ret[t] = OkCrc(<<completion[t].result_value[1],
                                    completion[t].result_value[2]>>)
            /\ (ret[t].kind = "Ok" /\ req[t].op = "memcmp") =>
                   ret[t] = OkBool(completion[t].result = 0)
            /\ (ret[t].kind = "Ok" /\ req[t].op \notin {"crc32", "memcmp"}) =>
                   ret[t] = Ok
        /\ (pc[t] = "done" /\ ret[t].kind = "Ok" /\ ~FastPath(t)) => Waited(t)

C15_Witness ==
    \E t \in Threads :
        /\ Waited(t) /\ Returned(t, "crc32") /\ served[t]
        /\ tally[t].seen = ST_SUCCESS /\ tally[t].reads = 2
        /\ ret[t].kind = "Ok" /\ ret[t].crc # ZeroU32 /\ ret[t].crc # req[t].seed

\* C16: when the status the waiter read is PageFault, the call returns
\* PageFault carrying the fault address and the bytes-completed count that the
\* device wrote into the record; PageFault is returned in no other case.
C16_WaiterPageFault ==
    \A t \in Threads :
        pc[t] = "done" =>
            /\ (Waited(t) /\ tally[t].seen = ST_PAGE_FAULT) =>
                   /\ ret[t].kind = "PageFault"
                   /\ ret[t].fault_addr = completion[t].fault_addr
                   /\ ret[t].bytes_completed = completion[t].bytes_completed
            /\ ret[t].kind = "PageFault" =>
                   Waited(t) /\ tally[t].seen = ST_PAGE_FAULT

C16_Witness ==
    \E t \in Threads :
        /\ Returned(t, "memcpy") /\ Waited(t)
        /\ tally[t].seen = ST_PAGE_FAULT
        /\ ret[t].kind = "PageFault"
        /\ ret[t].bytes_completed = 8 /\ desc[t].xfer_size = 9
        /\ ret[t].fault_addr = AddrPlus(AddrB(t), 8)
        /\ SubSeq(mem[t].b, 1, 8) = SubSeq(req[t].a, 1, 8)

\* C17: when the status the waiter read is nonzero and neither Success nor
\* PageFault, known or unknown, the call returns OperationFailed carrying the
\* raw status byte and the raw result byte of the record.
C17_WaiterFailure ==
    \A t \in Threads :
        (Waited(t) /\ tally[t].seen \notin {ST_PENDING, ST_SUCCESS, ST_PAGE_FAULT}) =>
            /\ ret[t].kind = "OperationFailed"
            /\ ret[t].status = completion[t].status
            /\ ret[t].status = tally[t].seen
            /\ ret[t].result = completion[t].result

C17_Witness ==
    \E t \in Threads :
        /\ Waited(t)
        /\ tally[t].seen = 66
        /\ CompletionStatus_from(tally[t].seen).tag = "Unknown"
        /\ ret[t].kind = "OperationFailed"
        /\ ret[t].status = 66 /\ ret[t].result # 0

\* C18: the waiter makes at most spin_iterations status reads; if none of them
\* saw a nonzero status, all spin_iterations were made and the call returns
\* OperationFailed{status: 0, result: 0}; and a call that is waiting always
\* returns.
C18_TimeoutSafe ==
    \A t \in Threads :
        /\ tally[t].reads <= wq.spin_iterations
        /\ polls[t] <= wq.spin_iterations
        /\ (Waited(t) /\ tally[t].seen = ST_PENDING) =>
               /\ tally[t].reads = wq.spin_iterations
               /\ ret[t].kind = "OperationFailed"
               /\ ret[t].status = 0 /\ ret[t].result = 0

C18_WaiterTimeout ==
    /\ []C18_TimeoutSafe
    /\ \A t \in Callers : (pc[t] = "wait") ~> (pc[t] = "done")

C18_Witness ==
    \E t \in Threads :
        /\ Waited(t) /\ tally[t].seen = ST_PENDING
        /\ wq.spin_iterations = MaxPolls /\ tally[t].reads = MaxPolls
        /\ tally[t].accepted = 1
        /\ ret[t].kind = "OperationFailed" /\ ret[t].status = 0

\* C19: on a Shared queue the call makes at most max_retries submission
\* attempts, all before the first acceptance, and returns QueueFull only when
\* max_retries attempts were made and none was accepted; every attempt hands
\* the device the same, unmodified descriptor.
C19_RetrySafe ==
    \A t \in Threads :
        /\ wq.wq_type = "Shared" => attempts[t] <= wq.max_retries
        /\ pc[t] = "submit" => tally[t].accepted = 0
        /\ (pc[t] = "done" /\ ret[t].kind = "QueueFull") =>
               /\ wq.wq_type = "Shared"
               /\ attempts[t] = wq.max_retries
               /\ tally[t].accepted = 0 /\ tally[t].reads = 0

C19_SameRecord ==
    \A t \in Threads :
        pc[t] = "submit" =>
            /\ pc'[t] \in {"submit", "wait", "done"}
            /\ desc'[t] = desc[t]
            /\ Len(devq') > Len(devq) =>
                   devq'[Len(devq')] = [owner |-> t, orphan |-> FALSE, desc |-> desc[t]]

C19_BoundedRetry == []C19_RetrySafe /\ [][C19_SameRecord]_vars

C19_Witness ==
    \E t \in Threads :
        /\ pc[t] = "done" /\ ret[t].kind = "QueueFull"
        /\ wq.wq_type = "Shared"
        /\ wq.max_retries = MaxTries /\ attempts[t] = MaxTries
        /\ desc[t] # DsaHwDesc_new

\* C20: on a Dedicated queue no call returns QueueFull, whatever the device's
\* queue holds and whatever max_retries is: the call issues its one posted
\* write and goes on to wait.
C20_PostedNeverFull ==
    \A t \in Threads :
        wq.wq_type = "Dedicated" =>
            /\ pc[t] = "done" => ret[t].kind # "QueueFull"
            /\ pc[t] = "wait" => attempts[t] = 1
            /\ pc[t] = "done" => (attempts[t] = 1 <=> (ret[t].kind # "BufferSizeMismatch"
                                                        /\ ~FastPath(t)))

\* a Dedicated call with max_retries = 0 whose posted write found the queue
\* full: it went on to wait and timed out
C20_Witness ==
    \E t \in Threads :
        /\ pc[t] = "done" /\ wq.wq_type = "Dedicated" /\ wq.max_retries = 0
        /\ attempts[t] = 1 /\ tally[t].accepted = 0
        /\ ret[t].kind = "OperationFailed" /\ ret[t].status = 0

(***************************************************************************)
(* Several threads calling on the one Shared handle (WorkQueue is Send and *)
(* Sync): every thread of Threads calls noop, with the retry budget set    *)
(* by the owner between calls.  A thread inside a call keeps running (weak *)
(* fairness); nothing is assumed of the device.                            *)
(***************************************************************************)
SharedStep(t) ==
    \/ noop(t)
    \/ enqcmd(t) \/ enqcmd_retry_exhausted(t)
    \/ wait_poll(t) \/ wait_timeout(t)

NextShared ==
    \/ \E t \in Threads, r \in NoopRequests : Call(t, r)
    \/ \E t \in Threads : Finish(t)
    \/ \E t \in Threads : Fallback(t)
    \/ \E t \in Threads : SharedStep(t)
    \/ \E n \in {1, MaxTries} : set_max_retries(n)
    \/ DevExecute
    \/ DevOrphanLost
    \/ DevOrphanHit

SpecShared == Init /\ [][NextShared]_vars /\ \A t \in Threads : WF_vars(SharedStep(t))

\* C21: on a Shared queue a call that made submission attempts none of which
\* the device accepted has returned QueueFull, never a success, and a call
\* that is submitting does not stay there: it goes on to wait or returns.
C21_FullIsReported ==
    \A t \in Threads :
        (pc[t] = "done" /\ wq.wq_type = "Shared" /\ attempts[t] > 0
         /\ tally[t].accepted = 0) =>
            ret[t].kind = "QueueFull"

C21_QueueFull ==
    /\ []C21_FullIsReported
    /\ \A t \in Threads : (pc[t] = "submit") ~> (pc[t] \in {"wait", "done"})

\* more calls than the queue is deep: the queue is full of other threads'
\* descriptors and this call has used up a small budget
C21_Witness ==
    \E t \in Threads :
        /\ pc[t] = "done" /\ ret[t].kind = "QueueFull"
        /\ wq.wq_type = "Shared" /\ wq.max_retries = MaxTries
        /\ attempts[t] = MaxTries /\ tally[t].accepted = 0
        /\ Len(devq) = WqSize
        /\ \A i \in 1..Len(devq) : devq[i].owner # t /\ ~devq[i].orphan
        /\ \E u \in Threads \ {t} : pc[u] = "wait"

(***************************************************************************)
(* The same threads and handle, with the default budgets, on a device that *)
(* completes every descriptor it has accepted with Success and keeps       *)
(* doing so (weak fairness of DevServe).                                   *)
(***************************************************************************)
DevServe ==
    /\ devq # <<>>
    /\ ~Head(devq).orphan
    /\ LET d == Head(devq).desc
           t == Head(devq).owner
           o == DevSuccess(d, mem[t])
       IN  /\ mem' = [mem EXCEPT ![t] = o.m]
           /\ IF RecordAt(d.completion_addr)
              THEN /\ completion' = [completion EXCEPT
                                       ![AddrOwner(d.completion_addr)] = o.cr]
                   /\ served' = [served EXCEPT ![t] =
                                   (AddrOwner(d.completion_addr) = t)]
              ELSE UNCHANGED <<completion, served>>
    /\ devq' = Tail(devq)
    /\ UNCHANGED <<host, wq, req, chain, pc, desc, attempts, polls, ret, fb, tally>>

NextLive ==
    \/ \E t \in Threads, r \in NoopRequests : Call(t, r)
    \/ \E t \in Threads : Finish(t)
    \/ \E t \in Threads : Fallback(t)
    \/ \E t \in Threads : SharedStep(t)
    \/ DevServe
    \/ DevOrphanLost
    \/ DevOrphanHit

SpecLive ==
    /\ Init /\ [][NextLive]_vars
    /\ \A t \in Threads : WF_vars(SharedStep(t))
    /\ WF_vars(DevServe)

\* the budgets are large enough for this run: no call has used up its
\* submission attempts or its polls
BudgetsSuffice ==
    \A t \in Threads :
        /\ ~(pc[t] = "submit" /\ attempts[t] >= wq.max_retries)
        /\ ~(pc[t] = "wait" /\ polls[t] >= wq.spin_iterations)

C22_AllSucceed ==
    \A t \in Threads : pc[t] = "done" => (ret[t].kind = "Ok" /\ tally[t].accepted = 1)

\* C22: with more threads than the Shared queue is deep, a device that
\* completes every accepted descriptor with Success and budgets that are never
\* used up, every call that reaches submission is accepted and returns
\* success, and no call returns QueueFull.
C22_Liveness ==
    []BudgetsSuffice =>
        /\ []C22_AllSucceed
        /\ \A t \in Threads :
               (pc[t] = "submit") ~> (pc[t] = "done" /\ ret[t].kind = "Ok" /\ served[t])

\* a call whose first attempts found the queue full of another thread's
\* descriptor, was accepted later and returned success, as did the other
C22_Witness ==
    \E t \in Threads :
        /\ pc[t] = "done" /\ ret[t].kind = "Ok" /\ served[t]
        /\ attempts[t] > 1 /\ tally[t].accepted = 1
        /\ BudgetsSuffice
        /\ \E u \in Threads \ {t} : pc[u] = "done" /\ ret[u].kind = "Ok" /\ served[u]

\* C25: every descriptor the device holds belongs to a call that has not
\* returned: the completion record the descriptor points at, a local of that
\* call, is still there when the device writes the terminal status.
C25_RecordOutlivesDescriptor ==
    \A i \in 1..Len(devq) :
        /\ ~devq[i].orphan
        /\ pc[devq[i].owner] = "wait"
        /\ devq[i].desc.completion_addr = AddrCompletion(devq[i].owner)

\* the call timed out and returned while the device still holds its
\* descriptor: the record the descriptor points at has been released
C25_ReleasedWhileQueued ==
    \E i \in 1..Len(devq) :
        /\ devq[i].orphan
        /\ pc[devq[i].owner] = "done"
        /\ ret[devq[i].owner] = OperationFailed(0, 0)
        /\ tally[devq[i].owner].accepted = 1
        /\ tally[devq[i].owner].seen = ST_PENDING

\* the completion record a queued descriptor will be completed into: the
\* one it points at, which for a descriptor whose call has returned is the
\* place of that call's record in its thread's stack
EntryRecord(e) == IF e.orphan THEN AddrCompletion(e.owner) ELSE e.desc.completion_addr

\* C24: a call that is about to submit, or is submitting, has an all-zero
\* completion record (status Pending), the descriptor it hands over points at
\* that record, and no two descriptors the device holds reference the same
\* completion record.
C24_PrivateFreshRecord ==
    /\ \A t \in Threads :
           pc[t] = "submit" =>
               /\ completion[t] = DsaCompletionRecord_new
               /\ desc[t].completion_addr = AddrCompletion(t)
    /\ \A i, j \in 1..Len(devq) :
           i # j => EntryRecord(devq[i]) # EntryRecord(devq[j])
    /\ \A i \in 1..Len(devq), t \in Threads :
           (pc[t] \in {"submit", "wait"} /\ EntryRecord(devq[i]) = AddrCompletion(t)) =>
               (devq[i].owner = t /\ ~devq[i].orphan)

\* the call is about to issue ENQCMD / MOVDIR64B, the queue has room, and its
\* completion record already carries status Success: the descriptor of an
\* earlier, timed-out call of the thread was completed into it
C24_StaleRecordAtSubmit ==
    \E t \in Threads :
        /\ pc[t] = "submit" /\ attempts[t] = 0
        /\ completion[t].status = ST_SUCCESS
        /\ desc[t].completion_addr = AddrCompletion(t)
        /\ Len(devq) < WqSize

\* The stage of thread t's operation: Built (descriptor built, not yet
\* accepted), Pending (accepted or posted, being polled), or the terminal
\* state its return value stands for.
Stage(t) ==
    CASE pc[t] = "submit" -> "Built"
      [] pc[t] = "wait" -> "Pending"
      [] pc[t] = "done" /\ attempts[t] > 0 /\ ret[t].kind = "Ok" -> "Success"
      [] pc[t] = "done" /\ ret[t].kind = "PageFault" -> "PageFault"
      [] pc[t] = "done" /\ ret[t].kind = "OperationFailed" /\ ret[t].status # 0 ->
           "HardwareError"
      [] pc[t] = "done" /\ ret[t] = OperationFailed(0, 0) -> "TimedOut"
      [] pc[t] = "done" /\ ret[t].kind = "QueueFull" -> "QueueFull"
      [] OTHER -> "None"

Terminal == {"Success", "PageFault", "HardwareError", "TimedOut"}

\* the steps of the state machine: Built stays Built (a retry), is submitted
\* or is refused; Pending is polled until a terminal state; a terminal state
\* is left only by the caller starting its next operation
C23_Transitions ==
    \A t \in Threads :
        /\ Stage(t) = "Built" => Stage(t)' \in {"Built", "Pending", "QueueFull"}
        /\ Stage(t) = "Pending" => Stage(t)' \in {"Pending"} \cup Terminal
        /\ Stage(t) \in Terminal =>
               \/ Stage(t)' = Stage(t) /\ ret'[t] = ret[t] /\ desc'[t] = desc[t]
                  /\ completion'[t] = completion[t] /\ mem'[t] = mem[t]
               \/ Stage(t)' = "None" /\ pc'[t] \in {"idle", "call"}
        /\ Stage(t)' = "Pending" => Stage(t) \in {"Built", "Pending"}
        /\ Stage(t)' \in Terminal => Stage(t) \in {"Pending", Stage(t)'}

\* an operation in a terminal state is over at the device as well, and the
\* record pair of an operation the device still holds is not in use by
\* another operation
C23_TerminalIsFinal ==
    \A t \in Threads, i \in 1..Len(devq) :
        devq[i].owner = t =>
            /\ Stage(t) \notin Terminal
            /\ Stage(t) \in {"Built", "Pending"} =>
                   (devq[i].desc = desc[t] /\ EntryRecord(devq[i]) = AddrCompletion(t)
                    /\ ~devq[i].orphan)

\* C23: every submitted operation moves Built -> Submitted -> Pending polling
\* -> one of Success, PageFault, HardwareError, TimedOut; a terminal state is
\* final, and the operation's descriptor / completion record pair is never
\* in use by another operation.
C23_StateMachine == []C23_TerminalIsFinal /\ [][C23_Transitions]_vars

\* the steps alone, which hold with the timeout included
C23_StepsOnly == [][C23_Transitions]_vars

\* the operation is TimedOut, a terminal state, and the device still holds
\* its descriptor: its completion is yet to come
C23_TimedOutStillQueued ==
    \E t \in Threads, i \in 1..Len(devq) :
        /\ Stage(t) = "TimedOut"
        /\ devq[i].owner = t
        /\ tally[t].reads = wq.spin_iterations
        /\ wq.spin_iterations = MaxPolls

\* C26: whatever the call, the software fallback returns Ok or
\* BufferSizeMismatch, never PageFault, QueueFull or OperationFailed; crc32,
\* memset and noop always return Ok, and memcpy and memcmp return
\* BufferSizeMismatch exactly for the lengths they reject.
C26_FallbackErrors ==
    \A t \in Threads :
        pc[t] \in {"entry", "submit", "wait", "done"} =>
            /\ fb[t].ret.kind \in {"Ok", "BufferSizeMismatch"}
            /\ req[t].op \in {"crc32", "memset", "noop"} => fb[t].ret.kind = "Ok"
            /\ req[t].op = "memcpy" =>
                   (fb[t].ret.kind = "BufferSizeMismatch" <=> Len(req[t].b) < Len(req[t].a))
            /\ req[t].op = "memcmp" =>
                   (fb[t].ret.kind = "BufferSizeMismatch" <=> Len(req[t].a) # Len(req[t].b))

\* the fallback's one error: a copy into a destination that is too short
C26_Witness ==
    \E t \in Threads :
        /\ pc[t] = "done" /\ req[t].op = "memcpy"
        /\ Len(req[t].b) < Len(req[t].a)
        /\ fb[t].ret = BufferSizeMismatch(Len(req[t].a), Len(req[t].b))
        /\ fb[t].dst = req[t].b

\* C30: the descriptor a call has built with crc_gen, mem_move, mem_fill,
\* compare or noop carries the address of the completion record it was given
\* in completion_addr and has REQUEST_COMPLETION (bit 0 of the flags) set, and
\* so does every descriptor the device has accepted.
C30_BuilderCompletion ==
    /\ \A t \in Threads :
           pc[t] \in {"submit", "wait"} =>
               /\ desc[t].completion_addr = AddrCompletion(t)
               /\ (desc[t].flags_opcode % OPCODE_SHIFT) % 2 = REQUEST_COMPLETION
               /\ opcode(desc[t]) =
                      (CASE req[t].op = "crc32" -> CrcGen
                         [] req[t].op = "memcpy" -> MemMove
                         [] req[t].op = "memset" -> MemFill
                         [] req[t].op = "memcmp" -> Compare
                         [] req[t].op = "noop" -> Noop)
    /\ \A i \in 1..Len(devq) :
           ~devq[i].orphan =>
               /\ devq[i].desc.completion_addr = AddrCompletion(devq[i].owner)
               /\ devq[i].desc.flags_opcode % 2 = REQUEST_COMPLETION

\* a descriptor of each of the five builders has been built
C30_Witness ==
    \E t \in Threads :
        /\ pc[t] = "wait" /\ req[t].op = "memset"
        /\ opcode(desc[t]) = MemFill
        /\ desc[t].completion_addr = AddrCompletion(t)
        /\ desc[t].flags_opcode = MemFill * OPCODE_SHIFT + REQUEST_COMPLETION
        /\ devq # <<>> /\ Head(devq).desc = desc[t]

(***************************************************************************)
(* device.rs and engine.rs: discovery and DsaEngine::open_first (Linux).   *)
(***************************************************************************)
\* Devices and work queues per device that the host may have.
MaxDevices == 2
MaxWqs == 2

\* WorkQueueInfo as open_first_wq reads it
WqInfos == [enabled : BOOLEAN, node : BOOLEAN]
DeviceSet == UNION {[1..k -> WqInfos] : k \in 0..MaxWqs}
SysfsStates ==
    {NoSysfs, [state |-> "unreadable", devices |-> <<>>]}
    \cup {[state |-> "ok", devices |-> ds] :
            ds \in UNION {[1..k -> DeviceSet] : k \in 0..MaxDevices}}

\* what WorkQueue::open may return
OpenOutcomes == {"Ok", "PermissionDenied", "Io", "MmapFailed"}

\* linux_impl::discover_devices
discover_devices(s) ==
    IF s.state = "missing" THEN [kind |-> "PlatformNotSupported", devices |-> <<>>]
    ELSE IF s.state = "unreadable" THEN [kind |-> "Io", devices |-> <<>>]
    ELSE [kind |-> "Ok", devices |-> s.devices]

\* the work queue DsaDevice::open_first_wq opens: the first one that is
\* enabled and has its device node, 0 if there is none
RECURSIVE FirstUsable(_, _)
FirstUsable(work_queues, i) ==
    IF i > Len(work_queues) THEN 0
    ELSE IF work_queues[i].enabled /\ work_queues[i].node THEN i
    ELSE FirstUsable(work_queues, i + 1)

\* WorkQueue::open returning outcome o: the portal is mapped when it is Ok
WorkQueue_open(o) ==
    portal' = IF o = "Ok"
              THEN [state |-> "mapped", mmaps |-> portal.mmaps + 1,
                    munmaps |-> portal.munmaps]
              ELSE portal

\* DsaDevice::open_first_wq on device number dev
open_first_wq(dev, work_queues, o) ==
    LET j == FirstUsable(work_queues, 1)
    IN  IF j = 0
        THEN /\ engine' = [kind |-> "NoWorkQueue", dev |-> dev, wq |-> 0]
             /\ UNCHANGED portal
        ELSE /\ engine' = [kind |-> o, dev |-> dev, wq |-> j]
             /\ WorkQueue_open(o)

\* DsaEngine::open_first
open_first(o) ==
    /\ engine = NoEngine
    /\ portal.state = "none"
    /\ LET found == discover_devices(sysfs)
       IN  IF found.kind # "Ok"
           THEN /\ engine' = [NoEngine EXCEPT !.kind = found.kind]
                /\ UNCHANGED portal
           ELSE IF found.devices = <<>>
           THEN /\ engine' = [NoEngine EXCEPT !.kind = "NoDeviceFound"]
                /\ UNCHANGED portal
           ELSE open_first_wq(1, Head(found.devices), o)
    /\ UNCHANGED <<wq, req, chain, pc, mem, completion, desc, attempts, polls, ret, fb, devq,
                   served, tally, sysfs, parsed, lastset>>

InitDiscover ==
    /\ InitCalls
    /\ sysfs \in SysfsStates
    /\ engine = NoEngine
    /\ portal = NoPortal
    /\ parsed = NoStatus
    /\ lastset = NoneSet

NextDiscover == \E o \in OpenOutcomes : open_first(o)

SpecDiscover == InitDiscover /\ [][NextDiscover]_vars

\* a work queue that is enabled and has its device node
HasUsable(work_queues) == \E j \in 1..Len(work_queues) : work_queues[j].enabled /\ work_queues[j].node

\* C27: once open_first has returned: it returned NoDeviceFound if discovery
\* found no device, and if some discovered device has an enabled work queue
\* with a device node it called WorkQueue::open on such a queue, the first one
\* in discovery order, and did not return NoWorkQueue.
C27_OpenFirst ==
    (engine.kind # "none" /\ sysfs.state = "ok") =>
        /\ sysfs.devices = <<>> => engine.kind = "NoDeviceFound"
        /\ (\E d \in 1..Len(sysfs.devices) : HasUsable(sysfs.devices[d])) =>
               /\ engine.kind \in OpenOutcomes
               /\ engine.dev \in 1..Len(sysfs.devices)
               /\ HasUsable(sysfs.devices[engine.dev])
               /\ engine.wq = FirstUsable(sysfs.devices[engine.dev], 1)
               /\ \A d \in 1..(engine.dev - 1) : ~HasUsable(sysfs.devices[d])

\* the first device has no enabled work queue with a node, a later one has:
\* open_first returned NoWorkQueue
C27_LaterDeviceIgnored ==
    /\ engine.kind = "NoWorkQueue"
    /\ sysfs.state = "ok" /\ Len(sysfs.devices) = 2
    /\ ~HasUsable(sysfs.devices[1])
    /\ HasUsable(sysfs.devices[2])
    /\ portal = NoPortal

(***************************************************************************)
(* The life of a handle: WorkQueue::open, calls on it, Drop.  Dropping     *)
(* takes the handle by value: no call borrows it then or afterwards.       *)
(***************************************************************************)
\* Handles opened one after the other.
MaxOpens == 2

\* WorkQueue::open taking the mode of the queue from what discovery read
open_detects_type(o) ==
    /\ portal.state = "none"
    /\ portal.mmaps < MaxOpens
    /\ WorkQueue_open(o)
    /\ wq' = IF o = "Ok"
             THEN [wq_type |-> IF sysfs.devices[1][1].mode = "dedicated"
                               THEN "Dedicated" ELSE "Shared",
                   max_retries |-> DEFAULT_MAX_RETRIES,
                   spin_iterations |-> DEFAULT_SPIN_ITERATIONS]
             ELSE wq
    /\ UNCHANGED <<req, chain, pc, mem, completion, desc, attempts, polls, ret, fb, devq,
                   served, tally, sysfs, engine, parsed, lastset>>

\* WorkQueue::open(path) returning outcome o
open(o) ==
    /\ portal.state = "none"
    /\ portal.mmaps < MaxOpens
    /\ WorkQueue_open(o)
    /\ wq' = IF o = "Ok"
             THEN [wq_type |-> "Shared", max_retries |-> DEFAULT_MAX_RETRIES,
                   spin_iterations |-> DEFAULT_SPIN_ITERATIONS]
             ELSE wq
    /\ UNCHANGED <<req, chain, pc, mem, completion, desc, attempts, polls, ret, fb, devq,
                   served, tally, sysfs, engine, parsed, lastset>>

\* Drop running while a call still borrows the handle
drop_while_borrowed ==
    /\ portal.state = "mapped"
    /\ portal' = [portal EXCEPT !.state = "none", !.munmaps = @ + 1]
    /\ UNCHANGED <<wq, req, chain, pc, mem, completion, desc, attempts, polls, ret, fb, devq,
                   served, tally, sysfs, engine, parsed, lastset>>

\* impl Drop for WorkQueue: libc::munmap(self.portal, self.portal_size)
drop ==
    /\ portal.state = "mapped"
    /\ \A t \in Threads : pc[t] = "idle"
    /\ portal' = [portal EXCEPT !.state = "none", !.munmaps = @ + 1]
    /\ UNCHANGED <<wq, req, chain, pc, mem, completion, desc, attempts, polls, ret, fb, devq,
                   served, tally, sysfs, engine, parsed, lastset>>

LifeStep(t) ==
    \/ noop(t)
    \/ movdir64b(t) \/ enqcmd(t) \/ enqcmd_retry_exhausted(t)
    \/ wait_poll(t) \/ wait_timeout(t)

InitLife ==
    /\ InitCalls
    /\ sysfs = NoSysfs
    /\ engine = NoEngine
    /\ portal = NoPortal
    /\ parsed = NoStatus
    /\ lastset = NoneSet

NextLife ==
    \/ \E o \in OpenOutcomes : open(o)
    \/ drop
    \/ \E t \in Callers, r \in NoopRequests : Call(t, r)
    \/ \E t \in Callers : Finish(t)
    \/ \E t \in Callers : Fallback(t)
    \/ \E t \in Callers : LifeStep(t)
    \/ \E ty \in {"Dedicated", "Shared"} : set_wq_type(ty)
    \/ DevExecute
    \/ DevOrphanLost
    \/ DevOrphanHit

SpecLife == InitLife /\ [][NextLife]_vars

\* every mapping made has been released except that of the live handle, and
\* a call is in progress only on a live handle
C28_MappingBalanced ==
    /\ portal.munmaps <= portal.mmaps
    /\ portal.mmaps - portal.munmaps = (IF portal.state = "mapped" THEN 1 ELSE 0)
    /\ \A t \in Threads : pc[t] # "idle" => portal.state = "mapped"

\* munmap is called in the step that destroys the handle and only there, once,
\* and a submission instruction is issued only with the portal mapped
C28_UnmapAtDrop ==
    /\ portal'.munmaps \in {portal.munmaps, portal.munmaps + 1}
    /\ (portal'.munmaps = portal.munmaps + 1) <=>
           (portal.state = "mapped" /\ portal'.state = "none")
    /\ \A t \in Threads :
           attempts'[t] > attempts[t] =>
               (portal.state = "mapped" /\ portal'.state = "mapped")

\* C28: the portal mapping of a handle is released exactly once, when the
\* handle is destroyed, never twice and never not at all, and no submission is
\* made to the portal after the unmap.
C28_UnmapOnce == []C28_MappingBalanced /\ [][C28_UnmapAtDrop]_vars

\* a second handle is live after the first was dropped, and a call on it is
\* waiting for the device
C28_Witness ==
    /\ portal = [state |-> "mapped", mmaps |-> 2, munmaps |-> 1]
    /\ \E t \in Threads : pc[t] = "wait" /\ attempts[t] = 1 /\ tally[t].accepted = 1

(***************************************************************************)
(* descriptor.rs: a completion record with any status byte in it, and      *)
(* get_status applied to it.                                               *)
(***************************************************************************)
U8 == 0..255

InitStatus ==
    /\ InitCalls
    /\ sysfs = NoSysfs
    /\ engine = NoEngine
    /\ portal = OpenPortal
    /\ parsed = NoStatus
    /\ lastset = NoneSet

\* the device, or anything else, writing a record with status byte c
write_status(c, res) ==
    /\ parsed = NoStatus
    /\ completion[1].status = 0
    /\ completion' = [completion EXCEPT ![1] =
                         [DsaCompletionRecord_new EXCEPT !.status = c, !.result = res]]
    /\ UNCHANGED <<wq, req, chain, pc, mem, desc, attempts, polls, ret, fb, devq, served,
                   tally, sysfs, engine, portal, parsed, lastset>>

\* DsaCompletionRecord::get_status on that record
read_status ==
    /\ parsed = NoStatus
    /\ parsed' = get_status(completion[1])
    /\ UNCHANGED <<wq, req, chain, pc, mem, completion, desc, attempts, polls, ret, fb, devq,
                   served, tally, sysfs, engine, portal, lastset>>

NextStatus ==
    \/ \E c \in U8, res \in {0, 1} : write_status(c, res)
    \/ read_status

SpecStatus == InitStatus /\ [][NextStatus]_vars

\* the number of conditions of a list that hold
Count(flags) == Cardinality({i \in 1..Len(flags) : flags[i]})

\* C29: the CompletionStatus parsed from a record depends on its status byte
\* alone: 0x00 is Pending, 0x01 Success, 0x03 PageFault, 0x10 InvalidFlags,
\* 0x11 UnsupportedOp, 0x13 InvalidSize, 0x19 InvalidCompletionAddr, 0x1F
\* HardwareError, every other byte c is Unknown(c); and exactly one of
\* is_pending, is_success, is_error holds of it.
C29_StatusMapping ==
    parsed # NoStatus =>
        LET c == completion[1].status
        IN  /\ c = 0 => parsed = [tag |-> "Pending", code |-> 0]
            /\ c = 1 => parsed = [tag |-> "Success", code |-> 0]
            /\ c = 3 => parsed = [tag |-> "PageFault", code |-> 0]
            /\ c = 16 => parsed = [tag |-> "InvalidFlags", code |-> 0]
            /\ c = 17 => parsed = [tag |-> "UnsupportedOp", code |-> 0]
            /\ c = 19 => parsed = [tag |-> "InvalidSize", code |-> 0]
            /\ c = 25 => parsed = [tag |-> "InvalidCompletionAddr", code |-> 0]
            /\ c = 31 => parsed = [tag |-> "HardwareError", code |-> 0]
            /\ c \notin {0, 1, 3, 16, 17, 19, 25, 31} =>
                   parsed = [tag |-> "Unknown", code |-> c]
            /\ Count(<<is_pending(parsed), is_success(parsed), is_error(parsed)>>) = 1
            /\ is_pending(parsed) <=> c = 0
            /\ is_success(parsed) <=> c = 1

\* a byte between Success and PageFault, in a record with other fields set
C29_Witness ==
    /\ parsed = [tag |-> "Unknown", code |-> 2]
    /\ completion[1].status = 2 /\ completion[1].result = 1
    /\ is_error(parsed)

(***************************************************************************)
(* descriptor.rs: a caller editing a descriptor of its own through         *)
(* set_opcode, set_flags and add_flags, in any order.  The descriptor is   *)
(* desc[1]; lastset keeps what the caller asked for.                       *)
(***************************************************************************)
CacheFlush == 32
\* the opcodes the caller sets: DsaOpcode values, the largest included
EditOpcodes == {Noop, MemMove, MemFill, Compare, CrcGen, CacheFlush}
\* DescriptorFlags::bits() of the arguments: none, REQUEST_COMPLETION, FENCE,
\* both, CACHE_CTRL, and two values with bits no constant names (bit 23, the
\* top of the flags field, and bit 24 with bit 1)
EditFlags == {0, 1, 4, 5, 512, 8388608, 16777218}

\* the bits of a word that are set, among bits lo..hi (opcodes stay below
\* 0x80, so bit 31 is never set and the word stays a TLC integer)
BitsOf(x, lo, hi) == {i \in lo..hi : (x \div (2 ^ i)) % 2 = 1}

Edit_set_opcode(op) ==
    /\ desc' = [desc EXCEPT ![1] = set_opcode(@, op)]
    /\ lastset' = [lastset EXCEPT !.opcode = op]
    /\ UNCHANGED <<wq, req, chain, pc, mem, completion, attempts, polls, ret, fb, devq,
                   served, tally, sysfs, engine, portal, parsed>>

Edit_set_flags(flags) ==
    /\ desc' = [desc EXCEPT ![1] = set_flags(@, flags)]
    /\ lastset' = [lastset EXCEPT !.flags = BitsOf(flags, 0, 23)]
    /\ UNCHANGED <<wq, req, chain, pc, mem, completion, attempts, polls, ret, fb, devq,
                   served, tally, sysfs, engine, portal, parsed>>

Edit_add_flags(flags) ==
    /\ desc' = [desc EXCEPT ![1] = add_flags(@, flags)]
    /\ lastset' = [lastset EXCEPT !.flags = @ \cup BitsOf(flags, 0, 23)]
    /\ UNCHANGED <<wq, req, chain, pc, mem, completion, attempts, polls, ret, fb, devq,
                   served, tally, sysfs, engine, portal, parsed>>

NextEdit ==
    \/ \E op \in EditOpcodes : Edit_set_opcode(op)
    \/ \E f \in EditFlags : Edit_set_flags(f)
    \/ \E f \in EditFlags : Edit_add_flags(f)

SpecEdit == Init /\ [][NextEdit]_vars

\* C31: after any sequence of set_opcode / set_flags / add_flags calls on a
\* descriptor, opcode() returns the opcode last set, bits 24-31 of the shared
\* word hold that opcode and nothing else, bits 0-23 hold exactly the flags
\* last set plus those added since, and no other field has changed.
C31_OpcodeFlagsDisjoint ==
    /\ opcode(desc[1]) = lastset.opcode
    /\ BitsOf(desc[1].flags_opcode, 24, 30) = {i + 24 : i \in BitsOf(lastset.opcode, 0, 6)}
    /\ BitsOf(desc[1].flags_opcode, 0, 23) = lastset.flags
    /\ [desc[1] EXCEPT !.flags_opcode = 0] = DsaHwDesc_new

\* REQUEST_COMPLETION | FENCE set, CACHE_CTRL added, the opcode set to CrcGen
\* and then to MemMove, and an argument with bit 24 added last
C31_Witness ==
    /\ lastset = [opcode |-> MemMove, flags |-> {0, 1, 2, 9}]
    /\ desc[1].flags_opcode = MemMove * OPCODE_SHIFT + 512 + 4 + 2 + 1
    /\ opcode(desc[1]) = 4

(***************************************************************************)
(* descriptor.rs: the memory layout of the two #[repr(C)] records.  Fields *)
(* are placed in declaration order, each at the next offset that is a      *)
(* multiple of its alignment; the size is rounded up to the alignment of   *)
(* the struct.  A field is [name, size, align] in bytes (on x86_64 an      *)
(* integer is aligned to its size, a byte array to 1).                     *)
(***************************************************************************)
\* DsaHwDesc without its reserved1 field
DsaHwDesc_fields_no_reserved ==
    << [name |-> "pasid", size |-> 4, align |-> 4],
       [name |-> "flags_opcode", size |-> 4, align |-> 4],
       [name |-> "completion_addr", size |-> 8, align |-> 8],
       [name |-> "src_addr", size |-> 8, align |-> 8],
       [name |-> "dst_addr", size |-> 8, align |-> 8],
       [name |-> "xfer_size", size |-> 4, align |-> 4],
       [name |-> "int_handle", size |-> 2, align |-> 2],
       [name |-> "src2_addr", size |-> 8, align |-> 8],
       [name |-> "crc_seed_or_delta_size", size |-> 8, align |-> 8],
       [name |-> "reserved2", size |-> 8, align |-> 8] >>

DsaHwDesc_fields ==
    << [name |-> "pasid", size |-> 4, align |-> 4],
       [name |-> "flags_opcode", size |-> 4, align |-> 4],
       [name |-> "completion_addr", size |-> 8, align |-> 8],
       [name |-> "src_addr", size |-> 8, align |-> 8],
       [name |-> "dst_addr", size |-> 8, align |-> 8],
       [name |-> "xfer_size", size |-> 4, align |-> 4],
       [name |-> "int_handle", size |-> 2, align |-> 2],
       [name |-> "reserved1", size |-> 2, align |-> 2],
       [name |-> "src2_addr", size |-> 8, align |-> 8],
       [name |-> "crc_seed_or_delta_size", size |-> 8, align |-> 8],
       [name |-> "reserved2", size |-> 8, align |-> 8] >>
DsaHwDesc_align == 64

DsaCompletionRecord_fields ==
    << [name |-> "status", size |-> 1, align |-> 1],
       [name |-> "result", size |-> 1, align |-> 1],
       [name |-> "fault_info", size |-> 1, align |-> 1],
       [name |-> "reserved1", size |-> 1, align |-> 1],
       [name |-> "bytes_completed", size |-> 4, align |-> 4],
       [name |-> "fault_addr", size |-> 8, align |-> 8],
       [name |-> "result_value", size |-> 8, align |-> 8],
       [name |-> "result_value2", size |-> 8, align |-> 8],
       [name |-> "reserved_op_specific", size |-> 32, align |-> 1] >>
DsaCompletionRecord_align == 32

AlignUp(x, a) == ((x + a - 1) \div a) * a

\* the offset of field i
RECURSIVE offset_of(_, _)
offset_of(fields, i) ==
    IF i = 1 THEN 0
    ELSE AlignUp(offset_of(fields, i - 1) + fields[i - 1].size, fields[i].align)

\* std::mem::align_of and std::mem::size_of for a struct declared align(declared)
align_of(fields, declared) ==
    CHOOSE a \in {declared} \cup {fields[i].align : i \in 1..Len(fields)} :
        /\ a >= declared
        /\ \A i \in 1..Len(fields) : a >= fields[i].align

size_of(fields, declared) ==
    AlignUp(offset_of(fields, Len(fields)) + fields[Len(fields)].size,
            align_of(fields, declared))

\* byte j (from 0) of a field's value in little-endian order: an integer of
\* up to 4 bytes, a u64 in limbs, or one of the reserved bytes, which the
\* driver only ever writes as zero
LeByte(v, size, j) ==
    CASE size = 8 -> PatternByte(v, j)
      [] size <= 4 -> (v \div (256 ^ j)) % 256
      [] OTHER -> 0

\* padding: a byte of the struct that belongs to no field
Pad == 0 - 1

\* the layout of a struct: where each field starts, and for each byte of the
\* struct the field it belongs to (0 for padding)
Layout(fields, declared) ==
    LET offs == [i \in 1..Len(fields) |-> offset_of(fields, i)]
        size == size_of(fields, declared)
    IN  [ offsets |-> offs,
          size |-> size,
          align |-> align_of(fields, declared),
          field |-> [k \in 0..(size - 1) |->
                       IF \E i \in 1..Len(fields) : offs[i] <= k /\ k < offs[i] + fields[i].size
                       THEN CHOOSE i \in 1..Len(fields) :
                                offs[i] <= k /\ k < offs[i] + fields[i].size
                       ELSE 0] ]

DsaHwDesc_layout == Layout(DsaHwDesc_fields, DsaHwDesc_align)
DsaCompletionRecord_layout == Layout(DsaCompletionRecord_fields, DsaCompletionRecord_align)

\* the bytes of a record value in memory, first byte first
Image(rec, fields, layout) ==
    [k \in 1..layout.size |->
       LET i == layout.field[k - 1]
       IN  IF i = 0 THEN Pad
           ELSE LeByte(IF fields[i].name \in DOMAIN rec THEN rec[fields[i].name] ELSE 0,
                       fields[i].size, (k - 1) - layout.offsets[i])]

as_bytes(d) == Image(d, DsaHwDesc_fields, DsaHwDesc_layout)
record_bytes(c) == Image(c, DsaCompletionRecord_fields, DsaCompletionRecord_layout)

\* bytes first..last (from 0) of an image
Range(img, first, last) == SubSeq(img, first + 1, last + 1)
\* the little-endian bytes of a 32-bit and of a 16-bit value
Le32(v) == <<v % 256, (v \div 256) % 256, (v \div 65536) % 256, v \div 16777216>>
Le16(v) == <<v % 256, v \div 256>>

\* C32: both records are 64 bytes (descriptor aligned to 64, completion
\* record to 32), every field starts at its documented offset and every byte
\* belongs to a field; so the 64 bytes of a descriptor handed to the device,
\* and of the completion record it points at, carry each field in its
\* documented byte range.
C32_RecordLayout ==
    /\ DsaHwDesc_layout.size = 64 /\ DsaHwDesc_layout.align = 64
    /\ DsaHwDesc_layout.offsets = <<0, 4, 8, 16, 24, 32, 36, 38, 40, 48, 56>>
    /\ \A k \in 0..63 : DsaHwDesc_layout.field[k] # 0
    /\ DsaCompletionRecord_layout.size = 64 /\ DsaCompletionRecord_layout.align = 32
    /\ DsaCompletionRecord_layout.offsets = <<0, 1, 2, 3, 4, 8, 16, 24, 32>>
    /\ \A k \in 0..63 : DsaCompletionRecord_layout.field[k] # 0
    /\ \A t \in Threads :
           pc[t] \in {"submit", "wait", "done"} =>
               LET img == as_bytes(desc[t])
                   rec == record_bytes(completion[t])
               IN  /\ Len(img) = 64 /\ \A k \in 1..64 : img[k] \in 0..255
                   /\ Range(img, 0, 3) = Le32(desc[t].pasid)
                   /\ Range(img, 4, 7) = Le32(desc[t].flags_opcode)
                   /\ Range(img, 8, 15) = to_le_bytes(desc[t].completion_addr)
                   /\ Range(img, 16, 23) = to_le_bytes(desc[t].src_addr)
                   /\ Range(img, 24, 31) = to_le_bytes(desc[t].dst_addr)
                   /\ Range(img, 32, 35) = Le32(desc[t].xfer_size)
                   /\ Range(img, 36, 37) = Le16(desc[t].int_handle)
                   /\ Range(img, 38, 39) = Le16(desc[t].reserved1)
                   /\ Range(img, 40, 47) = to_le_bytes(desc[t].src2_addr)
                   /\ Range(img, 48, 55) = to_le_bytes(desc[t].crc_seed_or_delta_size)
                   /\ Range(img, 56, 63) = to_le_bytes(desc[t].reserved2)
                   /\ Len(rec) = 64 /\ \A k \in 1..64 : rec[k] \in 0..255
                   /\ Range(rec, 0, 3) = <<completion[t].status, completion[t].result,
                                           completion[t].fault_info, completion[t].reserved1>>
                   /\ Range(rec, 4, 7) = Le32(completion[t].bytes_completed)
                   /\ Range(rec, 8, 15) = to_le_bytes(completion[t].fault_addr)
                   /\ Range(rec, 16, 23) = to_le_bytes(completion[t].result_value)
                   /\ Range(rec, 24, 31) = to_le_bytes(completion[t].result_value2)
                   /\ Range(rec, 32, 63) = [k \in 1..32 |-> 0]

\* a checksum call that returned: its descriptor's image has the opcode in
\* byte 7 and the length in bytes 32-35, the record's image the status in
\* byte 0 and the checksum from byte 16
C32_Witness ==
    \E t \in Threads :
        /\ pc[t] = "done" /\ req[t].op = "crc32" /\ ret[t].kind = "Ok" /\ served[t]
        /\ Len(as_bytes(desc[t])) = 64
        /\ Range(as_bytes(desc[t]), 4, 7) = <<1, 0, 0, 16>>
        /\ Range(as_bytes(desc[t]), 32, 35) = <<9, 0, 0, 0>>
        /\ Range(as_bytes(desc[t]), 38, 39) = <<0, 0>>
        /\ record_bytes(completion[t])[1] = 1
        /\ Range(record_bytes(completion[t]), 16, 19) # <<0, 0, 0, 0>>

\* the descriptor the call of thread t builds, field by field, with the
\* transfer size left as it is in d
Encoded(t, d) ==
    LET zero == [DsaHwDesc_new EXCEPT !.completion_addr = AddrCompletion(t),
                                      !.xfer_size = d.xfer_size]
    IN  CASE req[t].op = "crc32" ->
               [zero EXCEPT !.flags_opcode = 16 * OPCODE_SHIFT + 1,
                            !.src_addr = AddrA(t),
                            !.crc_seed_or_delta_size =
                                <<req[t].seed[1], req[t].seed[2], 0, 0>>]
          [] req[t].op = "memcpy" ->
               [zero EXCEPT !.flags_opcode = 4 * OPCODE_SHIFT + 1,
                            !.src_addr = AddrA(t),
                            !.dst_addr = AddrB(t)]
          [] req[t].op = "memset" ->
               [zero EXCEPT !.flags_opcode = 5 * OPCODE_SHIFT + 1,
                            !.src_addr = req[t].pattern,
                            !.dst_addr = AddrB(t)]
          [] req[t].op = "memcmp" ->
               [zero EXCEPT !.flags_opcode = 6 * OPCODE_SHIFT + 1,
                            !.src_addr = AddrA(t),
                            !.dst_addr = AddrB(t)]
          [] req[t].op = "noop" ->
               [zero EXCEPT !.flags_opcode = 1, !.xfer_size = 0]
          [] OTHER -> DsaHwDesc_new

\* C33: the descriptor a call has built, and the copy of it the device holds,
\* has its operation's opcode (0x10, 0x04, 0x05, 0x06, 0x00), the operands in
\* the first and second field (for a fill the pattern itself in the first),
\* the seed of a checksum in the seed field, length 0 for a no-op,
\* REQUEST_COMPLETION as its only flag, and zero in PASID, interrupt handle,
\* secondary address, the reserved fields and every field the operation does
\* not use.
C33_BuilderEncoding ==
    /\ \A t \in Threads :
           (pc[t] \in {"submit", "wait"} \/ (pc[t] = "done" /\ attempts[t] > 0)) =>
               desc[t] = Encoded(t, desc[t])
    /\ \A i \in 1..Len(devq) :
           ~devq[i].orphan => devq[i].desc = Encoded(devq[i].owner, devq[i].desc)

\* a fill that succeeded: the first field of its descriptor is the pattern,
\* which is no address of the caller's
C33_Witness ==
    \E t \in Threads :
        /\ pc[t] = "done" /\ req[t].op = "memset" /\ ret[t].kind = "Ok" /\ served[t]
        /\ desc[t].src_addr = <<47806, 51966, 48879, 57005>>
        /\ desc[t].dst_addr = AddrB(t)
        /\ desc[t].src2_addr = ZeroU64 /\ desc[t].crc_seed_or_delta_size = ZeroU64
        /\ desc[t].pasid = 0 /\ desc[t].int_handle = 0

\* the number of bytes the operation of thread t must process
OperationLength(t) ==
    CASE req[t].op \in {"crc32", "memcpy", "memcmp"} -> Len(req[t].a)
      [] req[t].op = "memset" -> Len(req[t].b)
      [] OTHER -> 0

\* C34: every checksum, copy, fill and compare descriptor the device has
\* accepted carries as its transfer length the number of bytes of the
\* operation (len(data), len(src), len(dst), len(a)), whatever that length,
\* and a call that returned success had all of them processed.
C34_TransferLength ==
    /\ \A i \in 1..Len(devq) :
           (~devq[i].orphan /\ opcode(devq[i].desc) # Noop) =>
               devq[i].desc.xfer_size = OperationLength(devq[i].owner)
    /\ \A t \in Threads :
           (pc[t] = "done" /\ attempts[t] > 0 /\ ret[t].kind = "Ok" /\ served[t]) =>
               completion[t].bytes_completed = OperationLength(t)

\* a copy of XferWrap + 1 bytes returned success after the device moved one
\* byte: the transfer length it was given is 1
C34_Truncated ==
    \E t \in Threads :
        /\ pc[t] = "done" /\ req[t].op = "memcpy" /\ ret[t].kind = "Ok" /\ served[t]
        /\ Len(req[t].a) = XferWrap + 1 /\ Len(req[t].b) = XferWrap + 1
        /\ desc[t].xfer_size = 1
        /\ completion[t].bytes_completed = 1
        /\ mem[t].b[2] = req[t].b[2] /\ mem[t].b[2] # req[t].a[2]

(***************************************************************************)
(* The handle's mode.  Discovery has read the queue's mode file; a handle  *)
(* is opened on the queue, its owner sets the mode and the budgets between *)
(* calls, and drops it.                                                    *)
(***************************************************************************)
\* one device with one usable work queue, of either mode (read_wq_info)
ModeSysfs ==
    {[state |-> "ok",
      devices |-> << << [enabled |-> TRUE, node |-> TRUE, mode |-> m] >> >>] :
        m \in {"dedicated", "shared", "unknown"}}

InitMode ==
    /\ InitCalls
    /\ sysfs \in ModeSysfs
    /\ engine = NoEngine
    /\ portal = NoPortal
    /\ parsed = NoStatus
    /\ lastset = NoneSet

NextMode ==
    \/ \E o \in OpenOutcomes : open(o)
    \/ drop
    \/ \E t \in Callers, r \in NoopRequests : Call(t, r)
    \/ \E t \in Callers : Finish(t)
    \/ \E t \in Callers : Fallback(t)
    \/ \E t \in Callers : LifeStep(t)
    \/ \E ty \in {"Dedicated", "Shared"} : set_wq_type(ty)
    \/ \E n \in {1, MaxTries} : set_max_retries(n)
    \/ \E n \in {1, MaxPolls} : set_spin_iterations(n)
    \/ DevExecute
    \/ DevOrphanLost
    \/ DevOrphanHit

SpecMode == InitMode /\ [][NextMode]_vars

\* in Dedicated mode a call makes one submission and is never refused
C35_ModeInvariant ==
    \A t \in Threads :
        (wq.wq_type = "Dedicated" /\ pc[t] \in {"submit", "wait", "done"}) =>
            /\ attempts[t] <= 1
            /\ ret[t].kind # "QueueFull"

\* a handle starts Shared with the default budgets, and its mode changes only
\* in a step that is set_wq_type: on a live handle, no call in progress,
\* nothing else changed
C35_ModeSteps ==
    /\ (portal.state = "none" /\ portal'.state = "mapped") =>
           wq' = [wq_type |-> "Shared", max_retries |-> 1000,
                  spin_iterations |-> 1000000]
    /\ (portal.state = "mapped" /\ wq'.wq_type # wq.wq_type) =>
           /\ portal' = portal
           /\ \A t \in Threads : pc[t] = "idle" /\ pc'[t] = "idle"
           /\ wq' = [wq EXCEPT !.wq_type = wq'.wq_type]
           /\ devq' = devq /\ attempts' = attempts /\ desc' = desc

\* a submission step: posted in Dedicated mode (one write, the call goes on
\* to wait whether or not the queue took the descriptor), non-posted with
\* bounded retry in Shared mode (the call goes on to wait only on acceptance,
\* stays within max_retries attempts, and is refused only when they are used up)
C35_SubmitSteps ==
    \A t \in Threads :
        (pc[t] = "submit" /\ (pc'[t] # "submit" \/ attempts'[t] # attempts[t])) =>
            IF wq.wq_type = "Dedicated"
            THEN /\ attempts[t] = 0 /\ attempts'[t] = 1
                 /\ pc'[t] = "wait"
                 /\ devq' = IF Len(devq) < WqSize THEN Append(devq, Entry(t)) ELSE devq
            ELSE /\ attempts'[t] <= wq.max_retries
                 /\ pc'[t] = "wait" <=>
                        (Len(devq) < WqSize /\ devq' = Append(devq, Entry(t))
                         /\ attempts'[t] = attempts[t] + 1)
                 /\ pc'[t] = "done" <=>
                        (attempts[t] >= wq.max_retries /\ ret'[t] = QueueFull
                         /\ attempts'[t] = attempts[t])
                 /\ pc'[t] = "submit" => (Len(devq) >= WqSize /\ attempts'[t] > attempts[t])

\* C35: a handle in Dedicated mode submits with posted writes only (one
\* write, no retry, never QueueFull), a handle in Shared mode with non-posted
\* submission and bounded retry only; a handle returned by open starts in
\* Shared mode with max_retries = 1000 and spin_iterations = 1,000,000
\* whatever mode discovery read for the queue, and the mode changes only
\* through set_wq_type.
C35_ModeSelectsPrimitive ==
    /\ []C35_ModeInvariant
    /\ [][C35_ModeSteps]_vars
    /\ [][C35_SubmitSteps]_vars

\* the queue is a dedicated one, the handle opened on it is in Shared mode
\* with the default budgets, and a call on it was accepted by ENQCMD
C35_Witness ==
    /\ sysfs.devices[1][1].mode = "dedicated"
    /\ portal = OpenPortal
    /\ wq = [wq_type |-> "Shared", max_retries |-> DEFAULT_MAX_RETRIES,
             spin_iterations |-> DEFAULT_SPIN_ITERATIONS]
    /\ \E t \in Threads : pc[t] = "wait" /\ attempts[t] = 1 /\ tally[t].accepted = 1

\* C36: a call returns QueueFull only after the device has rejected at least
\* one submission attempt of that call, whatever max_retries is set to.
C36_FullMeansRejected ==
    \A t \in Threads :
        (pc[t] = "done" /\ ret[t].kind = "QueueFull") =>
            /\ attempts[t] >= 1
            /\ attempts[t] > tally[t].accepted

\* max_retries is 0: the call built its descriptor and returned QueueFull
\* without a single attempt, with the device's queue empty
C36_FullWithoutAttempt ==
    \E t \in Threads :
        /\ pc[t] = "done" /\ ret[t].kind = "QueueFull"
        /\ wq.wq_type = "Shared" /\ wq.max_retries = 0
        /\ attempts[t] = 0 /\ tally[t].accepted = 0
        /\ desc[t] # DsaHwDesc_new
        /\ devq = <<>>

\* C37: a call returns the timeout value OperationFailed{status: 0, result: 0}
\* only if every poll read the status byte as zero and, where it made no poll
\* at all, the status byte was still zero when the waiter gave up: a record
\* that holds a terminal status before the first poll is never reported as a
\* timeout, whatever spin_iterations is set to.
C37_NoFalseTimeout ==
    \A t \in Threads :
        (pc[t] = "done" /\ attempts[t] > 0 /\ ret[t] = OperationFailed(0, 0)) =>
            /\ tally[t].seen = ST_PENDING
            /\ tally[t].reads = 0 => completion[t].status = ST_PENDING

\* spin_iterations is 0: the device completed the descriptor with Success
\* before the waiter started, and the call returned the timeout value without
\* reading the status
C37_TimeoutOnComplete ==
    \E t \in Threads :
        /\ pc[t] = "done" /\ ret[t] = OperationFailed(0, 0)
        /\ wq.spin_iterations = 0
        /\ tally[t].accepted = 1 /\ tally[t].reads = 0
        /\ completion[t].status = ST_SUCCESS /\ served[t]
        /\ devq = <<>>

\* C38: a call that returned QueueFull made no poll, the device accepted no
\* descriptor of it, the caller's buffers are as they were passed in, and the
\* call's completion record is still all zero.
C38_FullIsClean ==
    \A t \in Threads :
        (pc[t] = "done" /\ ret[t].kind = "QueueFull") =>
            /\ polls[t] = 0 /\ tally[t].reads = 0
            /\ tally[t].accepted = 0 /\ ~served[t]
            /\ mem[t] = [a |-> req[t].a, b |-> req[t].b]
            /\ completion[t] = DsaCompletionRecord_new


\* the queue was full of the descriptor of the thread's earlier, timed-out
\* call; the call's one attempt was rejected, the device then completed the
\* old descriptor into the place of the call's completion record, and the
\* call returned QueueFull with a record that reads Success
C38_StaleStatusAtFull ==
    \E t \in Threads :
        /\ pc[t] = "done" /\ ret[t].kind = "QueueFull"
        /\ wq.max_retries = 1 /\ attempts[t] = 1
        /\ tally[t].accepted = 0 /\ tally[t].reads = 0
        /\ completion[t].status = ST_SUCCESS
        /\ mem[t] = [a |-> req[t].a, b |-> req[t].b]
        /\ devq = <<>>

(***************************************************************************)
(* Several threads calling noop on the one handle (WorkQueue is Send and   *)
(* Sync), with the handle's mode set by its owner between calls and the    *)
(* default budgets.  Nothing is assumed of the device.                     *)
(***************************************************************************)
NextDedicated ==
    \/ \E t \in Threads, r \in NoopRequests : Call(t, r)
    \/ \E t \in Threads : Finish(t)
    \/ \E t \in Threads : Fallback(t)
    \/ \E t \in Threads : LifeStep(t)
    \/ \E ty \in {"Dedicated", "Shared"} : set_wq_type(ty)
    \/ DevExecute
    \/ DevOrphanLost
    \/ DevOrphanHit

SpecDedicated == Init /\ [][NextDedicated]_vars

\* C39: in Dedicated mode every posted write a call has made was admitted by
\* the device's queue, also with several threads calling on the handle, so a
\* Dedicated-mode call that timed out had its descriptor in the queue.
C39_NoDescriptorLost ==
    \A t \in Threads :
        (wq.wq_type = "Dedicated" /\ pc[t] \in {"wait", "done"} /\ attempts[t] = 1) =>
            tally[t].accepted = 1

\* two threads on a Dedicated handle: the queue is full of the descriptor of a
\* call that is still waiting, another call's posted write was dropped and
\* that call has timed out
C39_DroppedAtAdmission ==
    \E t \in Threads :
        /\ wq.wq_type = "Dedicated"
        /\ pc[t] = "done" /\ ret[t] = OperationFailed(0, 0)
        /\ attempts[t] = 1 /\ tally[t].accepted = 0
        /\ Len(devq) = WqSize
        /\ \A i \in 1..Len(devq) :
               devq[i].owner # t /\ ~devq[i].orphan /\ pc[devq[i].owner] = "wait"

\* C40: what a call returns holds a field of its completion record (result,
\* fault address, bytes completed, result value) only if one of its polls
\* read the status byte as nonzero; a call none of whose polls did so returns
\* without record fields: the timeout value with status 0 and result 0 if it
\* waited, whatever the record holds by then.
C40_FieldsAfterStatus ==
    \A t \in Threads :
        pc[t] = "done" =>
            /\ tally[t].seen = ST_PENDING =>
                   /\ ret[t].status = 0 /\ ret[t].result = 0
                   /\ ret[t].fault_addr = ZeroU64 /\ ret[t].bytes_completed = 0
                   /\ ret[t].kind \in {"Ok", "BufferSizeMismatch", "QueueFull",
                                       "OperationFailed"}
                   /\ ret[t].kind = "Ok" =>
                          (FastPath(t) /\ attempts[t] = 0
                           /\ ret[t].crc = req[t].seed
                           /\ ret[t].eq = (req[t].op = "memcmp"))
                   /\ Waited(t) => ret[t] = OperationFailed(0, 0)
            /\ tally[t].seen # ST_PENDING =>
                   /\ tally[t].reads >= 1
                   /\ completion[t].status = tally[t].seen
                   /\ ret[t] = CallResult(t)

\* a checksum call timed out; the device completed it after the last poll, so
\* the record holds Success and a checksum, and the call returned zeroed
\* fields
C40_Witness ==
    \E t \in Threads :
        /\ pc[t] = "done" /\ req[t].op = "crc32"
        /\ ret[t] = OperationFailed(0, 0)
        /\ tally[t].seen = ST_PENDING /\ tally[t].reads = wq.spin_iterations
        /\ completion[t].status = ST_SUCCESS
        /\ completion[t].result_value # ZeroU64
        /\ served[t]
====
